---- MODULE Spec2Model ----
(***************************************************************************)
(* RadioEngine v2.0 (src/radio-engine.js): dual-deck crossfade engine,     *)
(* energy-arc queue builder and transport controls, as a state machine.    *)
(*                                                                         *)
(* The engine is single-threaded: every action below is one task of the    *)
(* event loop (a public method call, a media-element event, a settled      *)
(* play() promise, an animation frame or a timer), run to completion       *)
(* together with the microtasks it leaves behind.                          *)
(*                                                                         *)
(* Times are in milliseconds, gains and volumes in thousandths.            *)
(***************************************************************************)
EXTENDS Integers, Sequences, FiniteSets, TLC

(***************************************************************************)
(* Bounds of the model.                                                    *)
(***************************************************************************)
MaxLibrary == 3        \* tracks registered at most (masterLibrary length)
MaxSessions == 2       \* _crossfadeToSource invocations alive at once
MaxPlayCalls == 1      \* play() invocations awaiting activeAudio.play()
MaxTimers == 1         \* pending setTimeout(() => next(), 500)
MaxAdvance == 1        \* track advances followed after a filter change
MaxBassLifts == 1      \* bass lifts (+2 dB) in effect at once
MaxFifo == 2           \* texts pending in the injector's queue
MaxTransitions == 2    \* transitions counted by the StreamController
TrackDuration == 10000 \* audio.duration of every track, ms

(***************************************************************************)
(* Program constants.                                                      *)
(***************************************************************************)
crossfadeDuration == 4      \* seconds, constructor default
defaultVolume == 1
Cycles == 3                 \* for (cycle = 0; cycle < 3; cycle++)
BpmJump == 5                \* diff > 5
DefaultBpm == 118
RestartAfter == 3           \* previous(): currentTime > 3
BassBase == 3               \* bassBoost.gain.value = 3
BassLift == 2               \* originalBassGain + 2

Decks == {"A", "B"}
NoUrl == "nourl"            \* a falsy url: undefined, null or ""
Stream == "stream1"         \* the url of a live stream: it has no duration
Unit == 1000                \* gain 1 / volume 1, in thousandths

Other(k) == IF k = "A" THEN "B" ELSE "A"

Min(a, b) == IF a <= b THEN a ELSE b
Abs(x) == IF x < 0 THEN -x ELSE x

Range(f) == {f[i] : i \in DOMAIN f}

(***************************************************************************)
(* Energy arc configuration.                                               *)
(***************************************************************************)
Phases == <<"build", "peak", "release", "cooldown">>

phaseConfig ==
  [build    |-> [tracks |-> 3, nextPhase |-> "peak"],
   peak     |-> [tracks |-> 2, nextPhase |-> "release"],
   release  |-> [tracks |-> 2, nextPhase |-> "cooldown"],
   cooldown |-> [tracks |-> 1, nextPhase |-> "build"]]

energyMap ==
  [build    |-> <<"low", "mid">>,
   peak     |-> <<"high", "mid">>,
   release  |-> <<"mid", "low">>,
   cooldown |-> <<"low">>]

(***************************************************************************)
(* registerGenre: the tagging of one track.  A missing (or zero) energy    *)
(* becomes "mid", a missing bpm 118; any other energy value is kept as it  *)
(* is, e.g. the normalized number "0.5".                                   *)
(***************************************************************************)
TagTrack(t, key) ==
  [url      |-> t.url,
   genreKey |-> key,
   energy   |-> IF t.energy = "" THEN "mid" ELSE t.energy,
   bpm      |-> IF t.bpm = 0 THEN DefaultBpm ELSE t.bpm]

(***************************************************************************)
(* _buildEnergyQueue.  Math.random() makes the result a set of possible    *)
(* queues: one per way of drawing the indices.                             *)
(***************************************************************************)
Pool(lib, filter) ==
  LET picked == SelectSeq(lib, LAMBDA t : t.genreKey = filter)
  IN  IF filter = "all" THEN lib
      ELSE IF Len(picked) = 0 THEN lib ELSE picked

Bucket(pool, e) == SelectSeq(pool, LAMBDA t : t.energy = e)

\* The tracks one draw of a phase can return: the first non-empty preferred
\* bucket, else all three buckets together; {} when no track is found.
PhaseCandidates(pool, phase) ==
  LET pref == energyMap[phase]
      nonEmpty == {i \in 1..Len(pref) : Len(Bucket(pool, pref[i])) > 0}
      allAvailable == Bucket(pool, "low") \o Bucket(pool, "mid") \o Bucket(pool, "high")
  IN  IF nonEmpty # {}
      THEN Range(Bucket(pool, pref[CHOOSE i \in nonEmpty : \A j \in nonEmpty : i <= j]))
      ELSE Range(allAvailable)

RECURSIVE Repeat(_, _)
Repeat(x, n) == IF n = 0 THEN <<>> ELSE <<x>> \o Repeat(x, n - 1)

\* The phase of every draw of the three nested loops, in order.
OneCycle ==
  Repeat("build", phaseConfig["build"].tracks)
    \o Repeat("peak", phaseConfig["peak"].tracks)
    \o Repeat("release", phaseConfig["release"].tracks)
    \o Repeat("cooldown", phaseConfig["cooldown"].tracks)

RECURSIVE Concat(_, _)
Concat(s, n) == IF n = 0 THEN <<>> ELSE s \o Concat(s, n - 1)

DrawPhases == Concat(OneCycle, Cycles)

\* cands[phase]: the tracks a draw of that phase can return
RECURSIVE RawQueues(_, _)
RawQueues(cands, slots) ==
  IF slots = <<>> THEN {<<>>}
  ELSE LET phase == Head(slots)
           rest  == RawQueues(cands, Tail(slots))
       IN  IF cands[phase] = {} THEN rest
           ELSE {<<[url |-> t.url, genreKey |-> t.genreKey, energy |-> t.energy,
                    bpm |-> t.bpm, phase |-> phase]>> \o r : t \in cands[phase], r \in rest}

\* _smoothBPMTransitions: positions are 1-based here, i is the code's i + 1.
FirstCloser(queue, prev, j) ==
  LET ok == {m \in j..Len(queue) : Abs(prev.bpm - queue[m].bpm) <= BpmJump}
  IN  IF ok = {} THEN 0 ELSE CHOOSE m \in ok : \A n \in ok : m <= n

RECURSIVE SmoothFrom(_, _)
SmoothFrom(queue, i) ==
  IF i > Len(queue) THEN queue
  ELSE LET prev == queue[i - 1]
           curr == queue[i]
           j    == FirstCloser(queue, prev, i + 1)
       IN  IF Abs(prev.bpm - curr.bpm) > BpmJump /\ j # 0
           THEN SmoothFrom([queue EXCEPT ![i] = queue[j], ![j] = queue[i]], i + 1)
           ELSE SmoothFrom(queue, i + 1)

\* Mutant: the closer track is copied to position i, not swapped with it.
RECURSIVE CopyFrom(_, _)
CopyFrom(queue, i) ==
  IF i > Len(queue) THEN queue
  ELSE LET j == FirstCloser(queue, queue[i - 1], i + 1)
       IN  IF Abs(queue[i - 1].bpm - queue[i].bpm) > BpmJump /\ j # 0
           THEN CopyFrom([queue EXCEPT ![i] = queue[j]], i + 1)
           ELSE CopyFrom(queue, i + 1)

smoothByCopy(queue) == CopyFrom(queue, 2)

\* Mutant: the scan starts at the second pair.
smoothFromSecondPair(queue) == SmoothFrom(queue, 3)

smoothBPMTransitions(queue) == SmoothFrom(queue, 2)

buildEnergyQueue(lib, filter) ==
  LET pool == Pool(lib, filter)
      cands == [build    |-> PhaseCandidates(pool, "build"),
                peak     |-> PhaseCandidates(pool, "peak"),
                release  |-> PhaseCandidates(pool, "release"),
                cooldown |-> PhaseCandidates(pool, "cooldown")]
  IN  {smoothBPMTransitions(q) : q \in RawQueues(cands, DrawPhases)}

(***************************************************************************)
(* State.  The engine's fields, the two media elements, and the            *)
(* invocations of async methods that are suspended at an await.            *)
(***************************************************************************)
VARIABLES
  webAudio,        \* platform: can an AudioContext be constructed?
  masterLibrary, genrePools, fallbackStream,
  activeFilter, queue, queueIndex, currentTrack, isTrackMode,
  energyPhase, tracksInPhase,
  audioContext,    \* TRUE when this.audioContext is set
  bassBoost,       \* bassBoost.gain.value (meaningful when audioContext)
  players,         \* per deck: the media element and its gain node
  activePlayer, isCrossfading, crossfadeRAF,
  isPlaying,
  sessions,        \* _crossfadeToSource invocations in flight
  playCalls,       \* play() invocations awaiting activeAudio.play()
  timers,          \* pending error-retry timeouts
  currentVolume,
  masterGain,      \* the master GainNode: its value and scheduled ramps
  voiceSynth,      \* VoiceSynthesizer, with the utterance it is speaking
  injector,        \* AudioInjector
  controller       \* StreamController

vars == <<webAudio, masterLibrary, genrePools, fallbackStream, activeFilter,
          queue, queueIndex, currentTrack, isTrackMode, energyPhase,
          tracksInPhase, audioContext, bassBoost, players, activePlayer,
          isCrossfading, crossfadeRAF, isPlaying, sessions, playCalls,
          timers, currentVolume, masterGain, voiceSynth, injector, controller>>

\* The state as one record, so that a handler is a function on states.  The
\* record carries two more fields while a task runs: log, the notifications
\* fired and the internal calls made so far, each with the state it saw, and
\* overflow, set when the task needs more than the bounds allow.
State ==
  [webAudio |-> webAudio, masterLibrary |-> masterLibrary,
   genrePools |-> genrePools, fallbackStream |-> fallbackStream,
   activeFilter |-> activeFilter, queue |-> queue, queueIndex |-> queueIndex,
   currentTrack |-> currentTrack, isTrackMode |-> isTrackMode,
   energyPhase |-> energyPhase, tracksInPhase |-> tracksInPhase,
   audioContext |-> audioContext, bassBoost |-> bassBoost,
   players |-> players, activePlayer |-> activePlayer,
   isCrossfading |-> isCrossfading, crossfadeRAF |-> crossfadeRAF,
   isPlaying |-> isPlaying, sessions |-> sessions, playCalls |-> playCalls,
   timers |-> timers, currentVolume |-> currentVolume,
   masterGain |-> masterGain, voiceSynth |-> voiceSynth, injector |-> injector,
   controller |-> controller, log |-> <<>>, overflow |-> FALSE]

\* The step to state s; disabled when s needed more than the bounds allow.
Becomes(s) ==
  \E t \in {s} :
    /\ ~t.overflow
    /\ webAudio' = t.webAudio
    /\ masterLibrary' = t.masterLibrary
    /\ genrePools' = t.genrePools
    /\ fallbackStream' = t.fallbackStream
    /\ activeFilter' = t.activeFilter
    /\ queue' = t.queue
    /\ queueIndex' = t.queueIndex
    /\ currentTrack' = t.currentTrack
    /\ isTrackMode' = t.isTrackMode
    /\ energyPhase' = t.energyPhase
    /\ tracksInPhase' = t.tracksInPhase
    /\ audioContext' = t.audioContext
    /\ bassBoost' = t.bassBoost
    /\ players' = t.players
    /\ activePlayer' = t.activePlayer
    /\ isCrossfading' = t.isCrossfading
    /\ crossfadeRAF' = t.crossfadeRAF
    /\ isPlaying' = t.isPlaying
    /\ sessions' = t.sessions
    /\ playCalls' = t.playCalls
    /\ timers' = t.timers
    /\ currentVolume' = t.currentVolume
    /\ masterGain' = t.masterGain
    /\ voiceSynth' = t.voiceSynth
    /\ injector' = t.injector
    /\ controller' = t.controller

IdleSession == [stage |-> "idle", out |-> "A", in |-> "A", elapsed |-> 0, bass |-> 0]
IdleCall == [stage |-> "idle", deck |-> "A"]

\* this.masterGain = null; no utterance handed to speechSynthesis
NoGain == [node |-> FALSE, value |-> 0, ramps |-> <<>>]
NoUtterance == [state |-> "none", onEnd |-> ""]

NoTrack == [kind |-> "null", url |-> NoUrl, index |-> -1, phase |-> ""]
StreamTrack == [kind |-> "stream", url |-> NoUrl, index |-> -1, phase |-> ""]

\* What an observer reading the engine inside a callback sees.
Seen(s) ==
  [activePlayer |-> s.activePlayer, isCrossfading |-> s.isCrossfading,
   isPlaying |-> s.isPlaying, players |-> s.players,
   currentTrack |-> s.currentTrack, queueIndex |-> s.queueIndex,
   sessions |-> s.sessions, bassBoost |-> s.bassBoost]

\* _fireEvent: the on<Name> callback runs synchronously, here.
fireEvent(s, name, data) ==
  [s EXCEPT !.log = Append(@, [kind |-> "event", name |-> name, data |-> data,
                               seen |-> Seen(s)])]

\* An internal call worth recording (same shape as a notification).
Call(s, name, data) ==
  [s EXCEPT !.log = Append(@, [kind |-> "call", name |-> name, data |-> data,
                               seen |-> Seen(s)])]

(***************************************************************************)
(* The media element (HTMLMediaElement), as far as the engine uses it.     *)
(* net: "empty" (no src), "loading", "ready" (enough data to play) or      *)
(* "failed" (the source could not be loaded).                              *)
(*                                                                         *)
(* A play() promise is "pending" while it sits in the element's list of    *)
(* pending play promises; the element takes it from the list and queues a  *)
(* task to resolve it ("resolving") once it can play, or to reject it      *)
(* ("rejecting") when pause() is called.  load() and a failed source       *)
(* reject it at once ("rejected"): the awaiting code then runs as a        *)
(* microtask, at the end of the current task.                              *)
(***************************************************************************)
RECURSIVE SettleSessions(_, _, _, _)
SettleSessions(s, k, stage, i) ==
  IF i > MaxSessions THEN s
  ELSE SettleSessions(IF s.sessions[i].stage = "pending" /\ s.sessions[i].in = k
                      THEN [s EXCEPT !.sessions[i].stage = stage] ELSE s,
                      k, stage, i + 1)

RECURSIVE SettleCalls(_, _, _, _)
SettleCalls(s, k, stage, i) ==
  IF i > MaxPlayCalls THEN s
  ELSE SettleCalls(IF s.playCalls[i].stage = "pending" /\ s.playCalls[i].deck = k
                   THEN [s EXCEPT !.playCalls[i].stage = stage] ELSE s,
                   k, stage, i + 1)

\* The element takes its pending play promises, to settle them.
SettlePending(s, k, stage) == SettleCalls(SettleSessions(s, k, stage, 1), k, stage, 1)

\* audio.pause()
audioPause(s, k) ==
  IF s.players[k].paused THEN s
  ELSE SettlePending([s EXCEPT !.players[k].paused = TRUE], k, "rejecting")

\* audio.src = url; audio.load()
audioLoad(s, k, url) ==
  SettlePending([s EXCEPT !.players[k].src = url, !.players[k].paused = TRUE,
                          !.players[k].pos = 0, !.players[k].net = "loading"],
                k, "rejected")

\* audio.currentTime = 0
audioRewind(s, k) == [s EXCEPT !.players[k].pos = 0]

\* audio.play(): the stage of the promise it returns ...
PlayPromise(s, k) ==
  CASE s.players[k].net = "failed" -> "rejected"
    [] s.players[k].net = "ready"  -> "resolving"
    [] OTHER                       -> "pending"

\* ... and what it does to the element.
audioPlay(s, k) ==
  IF s.players[k].net = "failed" THEN s
  ELSE [s EXCEPT !.players[k].paused = FALSE,
                 !.players[k].pos = IF @ = TrackDuration THEN 0 ELSE @]

(***************************************************************************)
(* Internal helpers of RadioEngine.                                        *)
(***************************************************************************)
loadSource(s, playerKey, url) ==
  IF url = NoUrl THEN s ELSE audioLoad(s, playerKey, url)

connectPlayer(s, key) ==
  IF s.players[key].connected \/ ~s.audioContext THEN s
  ELSE [s EXCEPT !.players[key].connected = TRUE,
                 !.players[key].gain = IF key = s.activePlayer THEN Unit ELSE 0]

initAudioContext(s) ==
  IF s.audioContext THEN s
  ELSE IF s.webAudio
       THEN connectPlayer([s EXCEPT !.audioContext = TRUE, !.bassBoost = BassBase,
                                    !.masterGain = [node |-> TRUE, value |-> s.currentVolume,
                                                    ramps |-> <<>>]],
                          "A")
       ELSE fireEvent(s, "error", [type |-> "audioContext"])

\* queue[i]?.url of the 0-based code.  The engine reads nothing but the url of
\* a queue entry, and the state keeps the queue as the sequence of its urls.
QueueUrl(s, i) ==
  IF i >= 0 /\ i < Len(s.queue) THEN s.queue[i + 1] ELSE NoUrl

OrElse(url, other) == IF url = NoUrl THEN other ELSE url

getCurrentSource(s) ==
  IF s.isTrackMode /\ Len(s.queue) > 0 /\ s.queueIndex >= 0
  THEN OrElse(QueueUrl(s, s.queueIndex), s.fallbackStream)
  ELSE s.fallbackStream

getNextSource(s) ==
  IF ~s.isTrackMode \/ Len(s.queue) = 0 THEN NoUrl
  ELSE QueueUrl(s, (s.queueIndex + 1) % Len(s.queue))

updateCurrentTrack(s) ==
  LET track == IF s.isTrackMode /\ Len(s.queue) > 0 /\ s.queueIndex >= 0
               THEN [kind |-> "track", url |-> QueueUrl(s, s.queueIndex),
                     index |-> s.queueIndex, phase |-> s.energyPhase]
               ELSE StreamTrack
  IN  fireEvent([s EXCEPT !.currentTrack = track], "trackChange", [track |-> track])

\* Mutant: the phase changes one track late (> for >=).
advanceEnergyPhaseLate(s) ==
  LET n == s.tracksInPhase + 1
      config == phaseConfig[s.energyPhase]
  IN  IF n > config.tracks
      THEN fireEvent([s EXCEPT !.energyPhase = config.nextPhase, !.tracksInPhase = 0],
                     "energyPhaseChange",
                     [from |-> s.energyPhase, to |-> config.nextPhase])
      ELSE [s EXCEPT !.tracksInPhase = n]

advanceEnergyPhase(s) ==
  LET n == s.tracksInPhase + 1
      config == phaseConfig[s.energyPhase]
  IN  IF n >= config.tracks
      THEN fireEvent([s EXCEPT !.energyPhase = config.nextPhase, !.tracksInPhase = 0],
                     "energyPhaseChange",
                     [from |-> s.energyPhase, to |-> config.nextPhase])
      ELSE [s EXCEPT !.tracksInPhase = n]

\* Mutant: the next source is loaded on the active deck.
preloadNextOnActive(s) ==
  LET nextSource == getNextSource(s)
  IN  IF nextSource = NoUrl THEN s
      ELSE IF s.players[s.activePlayer].src # nextSource
           THEN audioLoad(s, s.activePlayer, nextSource)
           ELSE s

preloadNext(s) ==
  LET nextSource == getNextSource(s)
      inactiveKey == Other(s.activePlayer)
  IN  IF nextSource = NoUrl THEN s
      ELSE IF s.players[inactiveKey].src # nextSource
           THEN audioLoad(s, inactiveKey, nextSource)
           ELSE s

(***************************************************************************)
(* Crossfade engine.                                                       *)
(***************************************************************************)
DurationMs == crossfadeDuration * 1000

\* progress = Math.min(elapsed / duration, 1), in thousandths
Progress(elapsed) == Min((elapsed * 1000) \div DurationMs, 1000)

\* Math.cos(progress * PI / 2), Math.sin(progress * PI / 2) and
\* 1 - Math.sin(progress * PI) * 0.05 at the quarter points, in thousandths.
Cos1000(p) == CASE p = 0 -> 1000 [] p = 250 -> 924 [] p = 500 -> 707
                [] p = 750 -> 383 [] OTHER -> 0
Sin1000(p) == Cos1000(1000 - p)
GrooveDip(p) == 1000 - (Sin1000(IF p <= 500 THEN 2 * p ELSE 2 * (1000 - p)) * 50) \div 1000

\* Mutant: the outgoing deck fades linearly.
FadeOutGainLinear(p) == ((1000 - p) * GrooveDip(p)) \div 1000

FadeOutGain(p) == (Cos1000(p) * GrooveDip(p)) \div 1000
FadeInGain(p) == (Sin1000(p) * GrooveDip(p)) \div 1000

FreeSessions(s) == {i \in 1..MaxSessions : s.sessions[i].stage = "idle"}
FreeCalls(s) == {i \in 1..MaxPlayCalls : s.playCalls[i].stage = "idle"}
Lowest(S) == CHOOSE i \in S : \A j \in S : i <= j

\* Mutant: the request is not gated on isCrossfading.
crossfadeToSourceUngated(s, newSource) ==
  LET outKey == s.activePlayer
      inKey  == Other(outKey)
      s1 == connectPlayer([s EXCEPT !.isCrossfading = TRUE], inKey)
      s2 == loadSource(s1, inKey, newSource)
      s3 == audioPlay(s2, inKey)
      r  == IF newSource = NoUrl THEN s
            ELSE IF FreeSessions(s) = {} THEN [s EXCEPT !.overflow = TRUE]
            ELSE [s3 EXCEPT !.sessions[Lowest(FreeSessions(s))] =
                              [stage |-> PlayPromise(s2, inKey), out |-> outKey,
                               in |-> inKey, elapsed |-> 0, bass |-> 0]]
  IN  [r EXCEPT !.log = Append(@, [kind |-> "call", name |-> "crossfadeToSource",
                                   data |-> [url |-> newSource],
                                   seen |-> Seen(s), left |-> Seen(r)])]

\* _crossfadeToSource up to its await.  The log entry of the call carries the
\* engine as the call found it (seen) and as it left it to its caller (left).
crossfadeToSource(s, newSource) ==
  LET outKey == s.activePlayer
      inKey  == Other(outKey)
      s1 == connectPlayer([s EXCEPT !.isCrossfading = TRUE], inKey)
      s2 == loadSource(s1, inKey, newSource)
      s3 == audioPlay(s2, inKey)
      r  == IF newSource = NoUrl \/ s.isCrossfading THEN s
            ELSE IF FreeSessions(s) = {} THEN [s EXCEPT !.overflow = TRUE]
            ELSE [s3 EXCEPT !.sessions[Lowest(FreeSessions(s))] =
                              [stage |-> PlayPromise(s2, inKey), out |-> outKey,
                               in |-> inKey, elapsed |-> 0, bass |-> 0]]
  IN  [r EXCEPT !.log = Append(@, [kind |-> "call", name |-> "crossfadeToSource",
                                   data |-> [url |-> newSource],
                                   seen |-> Seen(s), left |-> Seen(r)])]

\* _crossfadeToSource after "await inPlayer.audio.play()" resolved
crossfadeResume(s, i) ==
  LET originalBassGain == IF s.audioContext THEN s.bassBoost ELSE BassBase
      s1 == IF s.audioContext
            THEN [s EXCEPT !.bassBoost = originalBassGain + BassLift] ELSE s
  IN  [s1 EXCEPT !.sessions[i].stage = "ramp", !.sessions[i].bass = originalBassGain,
                 !.crossfadeRAF = i]

\* Mutant: the catch block forgets to reset the flag.
crossfadeAbortKeepsFlag(s, i) ==
  [s EXCEPT !.sessions[i] = IdleSession]

\* the catch block of _crossfadeToSource
crossfadeAbort(s, i) ==
  [s EXCEPT !.isCrossfading = FALSE, !.sessions[i] = IdleSession]

\* Mutant: the completion notifies before it swaps the decks.
doFadeNotifiesFirst(s, i, elapsed) ==
  LET ses == s.sessions[i]
      out == ses.out
      in  == ses.in
      progress == Progress(elapsed)
      s1 == IF s.players[out].connected /\ s.players[in].connected
            THEN [s EXCEPT !.players[out].gain = FadeOutGain(progress),
                           !.players[in].gain = FadeInGain(progress)]
            ELSE [s EXCEPT !.players[out].volume =
                                (FadeOutGain(progress) * s.currentVolume) \div Unit,
                           !.players[in].volume =
                                (FadeInGain(progress) * s.currentVolume) \div Unit]
  IN  IF progress < 1000
      THEN [s1 EXCEPT !.sessions[i].elapsed = elapsed, !.crossfadeRAF = i]
      ELSE LET s2 == updateCurrentTrack(s1)
               s3 == fireEvent(s2, "stateChange",
                               [isPlaying |-> TRUE, track |-> s2.currentTrack])
               s4 == audioRewind(audioPause(s3, out), out)
               s5 == IF s4.players[out].connected
                     THEN [s4 EXCEPT !.players[out].gain = 0] ELSE s4
               s6 == IF s5.audioContext THEN [s5 EXCEPT !.bassBoost = ses.bass] ELSE s5
               s7 == [s6 EXCEPT !.activePlayer = in, !.isCrossfading = FALSE,
                                !.sessions[i] = IdleSession,
                                !.crossfadeRAF = IF @ = i THEN 0 ELSE @]
           IN  IF s7.isTrackMode THEN preloadNext(s7) ELSE s7

\* doFade(now), with elapsed = now - startTime
doFade(s, i, elapsed) ==
  LET ses == s.sessions[i]
      out == ses.out
      in  == ses.in
      progress == Progress(elapsed)
      s1 == IF s.players[out].connected /\ s.players[in].connected
            THEN [s EXCEPT !.players[out].gain = FadeOutGain(progress),
                           !.players[in].gain = FadeInGain(progress)]
            ELSE [s EXCEPT !.players[out].volume =
                                (FadeOutGain(progress) * s.currentVolume) \div Unit,
                           !.players[in].volume =
                                (FadeInGain(progress) * s.currentVolume) \div Unit]
  IN  IF progress < 1000
      THEN [s1 EXCEPT !.sessions[i].elapsed = elapsed, !.crossfadeRAF = i]
      ELSE LET s2 == audioRewind(audioPause(s1, out), out)
               s3 == IF s2.players[out].connected
                     THEN [s2 EXCEPT !.players[out].gain = 0] ELSE s2
               s4 == IF s3.audioContext THEN [s3 EXCEPT !.bassBoost = ses.bass] ELSE s3
               s5 == [s4 EXCEPT !.activePlayer = in, !.isCrossfading = FALSE,
                                !.sessions[i] = IdleSession,
                                !.crossfadeRAF = IF @ = i THEN 0 ELSE @]
               s6 == updateCurrentTrack(s5)
               s7 == fireEvent(s6, "stateChange",
                               [isPlaying |-> TRUE, track |-> s6.currentTrack])
           IN  IF s7.isTrackMode THEN preloadNext(s7) ELSE s7

startCrossfadeToNext(s) ==
  IF s.isCrossfading \/ ~s.isTrackMode \/ Len(s.queue) = 0 THEN s
  ELSE LET nextIndex == (s.queueIndex + 1) % Len(s.queue)
           s1 == advanceEnergyPhase([s EXCEPT !.queueIndex = nextIndex])
       IN  crossfadeToSource(s1, QueueUrl(s, nextIndex))

(***************************************************************************)
(* Transport controls.  q is the queue a _buildEnergyQueue call returns,   *)
(* should the method make one.                                             *)
(***************************************************************************)
RECURSIVE Urls(_)
Urls(q) == IF q = <<>> THEN <<>> ELSE <<Head(q).url>> \o Urls(Tail(q))

Rebuilt(s, filter, q) ==
  Call([s EXCEPT !.queue = Urls(q)], "buildEnergyQueue", [filter |-> filter])

\* the common tail of next() and previous()
GoToCurrent(s) ==
  IF s.isPlaying
  THEN crossfadeToSource(s, getCurrentSource(s))
  ELSE updateCurrentTrack(loadSource(s, s.activePlayer, getCurrentSource(s)))

NextWraps(s) ==
  s.isTrackMode /\ Len(s.queue) > 0 /\ (s.queueIndex + 1) % Len(s.queue) = 0

next(s, q) ==
  IF ~s.isTrackMode \/ Len(s.queue) = 0 THEN s
  ELSE LET s1 == [s EXCEPT !.queueIndex = (s.queueIndex + 1) % Len(s.queue)]
           s2 == advanceEnergyPhase(s1)
           s3 == IF s2.queueIndex = 0 THEN Rebuilt(s2, s2.activeFilter, q) ELSE s2
       IN  GoToCurrent(s3)

\* Mutant: the cursor is decremented without the wrap.
previousNoWrap(s) ==
  IF ~s.isTrackMode \/ Len(s.queue) = 0 THEN s
  ELSE IF s.players[s.activePlayer].pos > RestartAfter * 1000
       THEN audioRewind(s, s.activePlayer)
       ELSE GoToCurrent([s EXCEPT !.queueIndex = s.queueIndex - 1])

\* Mutant: the restart applies to the first seconds of the track.
previousRestartsEarly(s) ==
  IF ~s.isTrackMode \/ Len(s.queue) = 0 THEN s
  ELSE IF s.players[s.activePlayer].pos <= RestartAfter * 1000
       THEN audioRewind(s, s.activePlayer)
       ELSE GoToCurrent([s EXCEPT !.queueIndex =
                                    (s.queueIndex - 1 + Len(s.queue)) % Len(s.queue)])

previous(s) ==
  IF ~s.isTrackMode \/ Len(s.queue) = 0 THEN s
  ELSE IF s.players[s.activePlayer].pos > RestartAfter * 1000
       THEN audioRewind(s, s.activePlayer)
       ELSE GoToCurrent([s EXCEPT !.queueIndex =
                                    (s.queueIndex - 1 + Len(s.queue)) % Len(s.queue)])

setFilter(s, filter, q) ==
  LET wasPlaying == s.isPlaying
      s1 == Rebuilt([s EXCEPT !.activeFilter = filter], filter, q)
      s2 == [s1 EXCEPT !.queueIndex = 0, !.isTrackMode = Len(q) > 0,
                       !.energyPhase = "build", !.tracksInPhase = 0]
      s3 == fireEvent(s2, "channelChange",
                      [channel |-> filter, isTrackMode |-> s2.isTrackMode])
  IN  IF wasPlaying /\ Len(q) > 0 THEN crossfadeToSource(s3, q[1].url)
      ELSE IF Len(q) > 0
           THEN updateCurrentTrack(loadSource(s3, s3.activePlayer, q[1].url))
           ELSE s3

\* Mutant: play() goes on without looking at the source.
playWithoutSourceCheck(s, q) ==
  LET s1 == initAudioContext(s)
      s2 == IF Len(s1.queue) = 0
            THEN [Rebuilt(s1, s1.activeFilter, q)
                    EXCEPT !.queueIndex = 0, !.isTrackMode = Len(q) > 0]
            ELSE s1
      s3 == connectPlayer(s2, Other(s2.activePlayer))
      source == getCurrentSource(s3)
      active == s3.activePlayer
      s4 == IF s3.players[active].src # source THEN loadSource(s3, active, source) ELSE s3
      s5 == audioPlay(s4, active)
  IN  IF FreeCalls(s3) = {} THEN [s3 EXCEPT !.overflow = TRUE]
      ELSE [s5 EXCEPT !.playCalls[Lowest(FreeCalls(s3))] =
                        [stage |-> PlayPromise(s4, active), deck |-> active]]

\* play() up to "await activeAudio.play()".  The AudioContext is created
\* running (inside a user gesture), so play() does not wait for resume().
play(s, q) ==
  LET s1 == initAudioContext(s)
      s2 == IF Len(s1.queue) = 0
            THEN [Rebuilt(s1, s1.activeFilter, q)
                    EXCEPT !.queueIndex = 0, !.isTrackMode = Len(q) > 0]
            ELSE s1
      s3 == connectPlayer(s2, Other(s2.activePlayer))
      source == getCurrentSource(s3)
      active == s3.activePlayer
      s4 == IF s3.players[active].src # source THEN loadSource(s3, active, source) ELSE s3
      s5 == audioPlay(s4, active)
  IN  IF source = NoUrl THEN fireEvent(s3, "error", [type |-> "noSource"])
      ELSE IF FreeCalls(s3) = {} THEN [s3 EXCEPT !.overflow = TRUE]
      ELSE [s5 EXCEPT !.playCalls[Lowest(FreeCalls(s3))] =
                        [stage |-> PlayPromise(s4, active), deck |-> active]]

\* play() after "await activeAudio.play()" resolved
playResume(s, i) ==
  LET s1 == updateCurrentTrack([s EXCEPT !.isPlaying = TRUE, !.playCalls[i] = IdleCall])
      s2 == fireEvent(s1, "stateChange", [isPlaying |-> TRUE, track |-> s1.currentTrack])
  IN  IF s2.isTrackMode THEN preloadNext(s2) ELSE s2

\* the catch block of play()
playAbort(s, i) ==
  fireEvent([s EXCEPT !.playCalls[i] = IdleCall], "error", [type |-> "playback"])

pause(s) ==
  LET s1 == audioPause(s, s.activePlayer)
      s2 == [s1 EXCEPT !.isPlaying = FALSE]
  IN  fireEvent(s2, "stateChange", [isPlaying |-> FALSE, track |-> s2.currentTrack])

\* cancelAnimationFrame(this.crossfadeRAF): the frame last requested, if it
\* has not run yet, never runs; the invocation that asked for it is over.
cancelFrame(s) ==
  IF s.crossfadeRAF # 0 /\ s.sessions[s.crossfadeRAF].stage = "ramp"
  THEN [s EXCEPT !.sessions[s.crossfadeRAF] = IdleSession, !.crossfadeRAF = 0]
  ELSE s

stop(s) ==
  LET s1 == audioRewind(audioPause(s, "A"), "A")
      s2 == audioRewind(audioPause(s1, "B"), "B")
      s3 == [s2 EXCEPT !.isPlaying = FALSE, !.isCrossfading = FALSE]
      s4 == cancelFrame(s3)
  IN  fireEvent(s4, "stateChange", [isPlaying |-> FALSE, track |-> NoTrack])

(***************************************************************************)
(* Media-element event listeners (_setupEventListeners).                   *)
(***************************************************************************)
onEnded(s, key, q) ==
  IF key = s.activePlayer /\ s.isTrackMode THEN next(s, q) ELSE s

onTimeUpdate(s, key) ==
  IF key # s.activePlayer THEN s
  ELSE LET s1 == fireEvent(s, "timeUpdate", [currentTime |-> s.players[key].pos])
           remaining == TrackDuration - s.players[key].pos
       IN  IF s1.isTrackMode /\ s.players[key].src # Stream /\ ~s1.isCrossfading
              /\ remaining <= DurationMs + 500 /\ remaining > 0
           THEN startCrossfadeToNext(s1)
           ELSE s1

\* Mutant: a failure of the inactive deck schedules a retry too.
onErrorAnyDeck(s, key) ==
  LET s1 == fireEvent(s, "error", [type |-> "playback", player |-> key])
  IN  IF s1.isTrackMode
      THEN IF s1.timers >= MaxTimers THEN [s1 EXCEPT !.overflow = TRUE]
           ELSE [s1 EXCEPT !.timers = @ + 1]
      ELSE s1

onError(s, key) ==
  LET s1 == fireEvent(s, "error", [type |-> "playback", player |-> key])
  IN  IF key = s1.activePlayer /\ s1.isTrackMode
      THEN IF s1.timers >= MaxTimers THEN [s1 EXCEPT !.overflow = TRUE]
           ELSE [s1 EXCEPT !.timers = @ + 1]
      ELSE s1

\* Microtasks: the awaits whose promise was rejected during this task.
RECURSIVE AbortCalls(_, _)
AbortCalls(s, i) ==
  IF i > MaxPlayCalls THEN s
  ELSE AbortCalls(IF s.playCalls[i].stage = "rejected" THEN playAbort(s, i) ELSE s, i + 1)

RECURSIVE AbortSessions(_, _)
AbortSessions(s, i) ==
  IF i > MaxSessions THEN s
  ELSE AbortSessions(IF s.sessions[i].stage = "rejected" THEN crossfadeAbort(s, i) ELSE s,
                     i + 1)

Microtasks(s) == AbortCalls(AbortSessions(s, 1), 1)


(***************************************************************************)
(* Tasks of the event loop.  XTasks is the set of states a task X can      *)
(* leave the engine in, from the current state (with the log of what it    *)
(* fired and called); the action X takes one of them.                      *)
(***************************************************************************)

(***************************************************************************)
(* Volume (RadioEngine.setVolume) and the narration subsystem of           *)
(* src/dj-persona.js: VoiceSynthesizer, AudioInjector, StreamController.   *)
(* The injector always has an engine.  cb names the completion callback a  *)
(* caller hands to playNext: "transition" (executeTransition) or "intro"   *)
(* (speakIntro).  throws: the platform throws inside speak().              *)
(***************************************************************************)
duckLevel == 250            \* 0.25, in thousandths
stationIDInterval == 4

Clamp(value) == IF value < 0 THEN 0 ELSE Min(value, Unit)

\* Mutant: the value is stored as it comes.
setVolumeUnclamped(s, value) ==
  LET s1 == [s EXCEPT !.currentVolume = value]
  IN  IF s1.masterGain.node
      THEN [s1 EXCEPT !.masterGain.value = s1.currentVolume]
      ELSE [s1 EXCEPT !.players[s1.activePlayer].volume = s1.currentVolume]

setVolume(s, value) ==
  LET s1 == [s EXCEPT !.currentVolume = Clamp(value)]
  IN  IF s1.masterGain.node
      THEN [s1 EXCEPT !.masterGain.value = s1.currentVolume]
      ELSE [s1 EXCEPT !.players[s1.activePlayer].volume = s1.currentVolume]

\* gain.cancelScheduledValues(now); gain.setValueAtTime(gain.value, now);
\* gain.linearRampToValueAtTime(target, now + duration)
rampTo(s, target) ==
  [s EXCEPT !.masterGain.ramps = <<target>>]

duckMusic(s) ==
  LET s1 == Call([s EXCEPT !.injector.originalVolume = s.currentVolume],
                 "duckMusic", [speaking |-> s.injector.isSpeaking])
      ducked == (s1.injector.originalVolume * duckLevel) \div Unit
  IN  IF s1.masterGain.node
      THEN IF s1.audioContext THEN rampTo(s1, ducked) ELSE s1
      ELSE setVolume(s1, ducked)

unduckMusic(s) ==
  LET s1 == Call(s, "unduckMusic", [speaking |-> s.injector.isSpeaking])
  IN  IF s1.masterGain.node
      THEN IF s1.audioContext THEN rampTo(s1, s1.injector.originalVolume) ELSE s1
      ELSE setVolume(s1, s1.injector.originalVolume)

\* The completion callbacks of StreamController.
onComplete(s, cb) ==
  LET s1 == Call(s, "onComplete", [callback |-> cb])
  IN  CASE cb = "transition" ->
             IF s1.controller.transitionsCount >= MaxTransitions
             THEN [s1 EXCEPT !.overflow = TRUE]
             ELSE [s1 EXCEPT !.controller.transitionsCount = @ + 1,
                             !.controller.isPrepared = FALSE]
        [] cb = "intro" -> [s1 EXCEPT !.controller.hasSpokenIntro = TRUE]
        [] OTHER -> s1

\* The onEnd closure playNext hands to speak().
speechDone(s, cb) ==
  LET s1 == unduckMusic(s)
      s2 == [s1 EXCEPT !.injector.isSpeaking = FALSE]
  IN  onComplete(s2, cb)

\* speechSynthesis.cancel(): the utterance being spoken is dropped; its last
\* event (end or error) is still to come.
synthCancel(s) ==
  IF s.voiceSynth.utterance.state = "speaking"
  THEN [s EXCEPT !.voiceSynth.utterance.state = "cancelled"] ELSE s

\* Mutant: without voices speak() returns without calling onEnd.
speakStallsWhenUnavailable(s, text, cb, throws) ==
  IF ~s.voiceSynth.isReady THEN s
  ELSE IF throws THEN speechDone(s, cb)
  ELSE IF s.voiceSynth.utterance.state # "none" THEN [s EXCEPT !.overflow = TRUE]
  ELSE Call([s EXCEPT !.voiceSynth.utterance = [state |-> "speaking", onEnd |-> cb]],
            "speak", [text |-> text, speaking |-> s.injector.isSpeaking])

\* VoiceSynthesizer.speak(text, persona, onStart, onEnd)
speak(s, text, cb, throws) ==
  IF ~s.voiceSynth.isReady \/ throws THEN speechDone(s, cb)
  ELSE IF s.voiceSynth.utterance.state # "none" THEN [s EXCEPT !.overflow = TRUE]
  ELSE Call([s EXCEPT !.voiceSynth.utterance = [state |-> "speaking", onEnd |-> cb]],
            "speak", [text |-> text, speaking |-> s.injector.isSpeaking])

\* utterance.onend / utterance.onerror
utteranceDone(s) ==
  speechDone([s EXCEPT !.voiceSynth.utterance = NoUtterance],
             s.voiceSynth.utterance.onEnd)

\* Mutant: playNext does not look at isSpeaking.
playNextUngated(s, cb, throws) ==
  IF Len(s.injector.queue) = 0 THEN onComplete(s, cb)
  ELSE LET text == Head(s.injector.queue)
           s1 == [s EXCEPT !.injector.queue = Tail(@), !.injector.isSpeaking = TRUE]
       IN  speak(duckMusic(s1), text, cb, throws)

\* AudioInjector.playNext(persona, voiceSynth, onComplete)
playNext(s, cb, throws) ==
  IF Len(s.injector.queue) = 0 \/ s.injector.isSpeaking THEN onComplete(s, cb)
  ELSE LET text == Head(s.injector.queue)
           s1 == [s EXCEPT !.injector.queue = Tail(@), !.injector.isSpeaking = TRUE]
       IN  speak(duckMusic(s1), text, cb, throws)

\* AudioInjector.queueText(text)
queueText(s, text) ==
  IF Len(s.injector.queue) >= MaxFifo THEN [s EXCEPT !.overflow = TRUE]
  ELSE [s EXCEPT !.injector.queue = Append(@, text)]

\* The script of a transition: the track it announces, the transition it was
\* written for, and whether it opens with a station ID.
Script(s, nextTrack) ==
  [kind |-> "transition", track |-> nextTrack, n |-> s.controller.transitionsCount,
   stationID |-> s.controller.transitionsCount > 0
                   /\ s.controller.transitionsCount % stationIDInterval = 0]

IntroText == [kind |-> "intro", track |-> NoUrl, n |-> 0, stationID |-> FALSE]

\* Mutant: prepareTransition does not look at isPrepared.
prepareTransitionUnguarded(s, nextTrack) ==
  IF ~s.controller.enabled THEN s
  ELSE IF nextTrack = NoUrl THEN s
  ELSE [queueText(s, Script(s, nextTrack)) EXCEPT !.controller.isPrepared = TRUE]

\* prepareTransition(nextTrack, energyPhase); generateTransition throws on a
\* missing track (NoUrl), and the catch block leaves everything as it was.
prepareTransition(s, nextTrack) ==
  IF ~s.controller.enabled \/ s.controller.isPrepared THEN s
  ELSE IF nextTrack = NoUrl THEN s
  ELSE [queueText(s, Script(s, nextTrack)) EXCEPT !.controller.isPrepared = TRUE]

executeTransition(s, throws) ==
  IF ~s.controller.enabled THEN s ELSE playNext(s, "transition", throws)

speakIntro(s, throws) ==
  IF ~s.controller.enabled \/ s.controller.hasSpokenIntro THEN s
  ELSE playNext(queueText(s, IntroText), "intro", throws)

\* Mutant: switching off leaves the pending texts where they are.
toggleKeepsQueue(s) ==
  LET s1 == [s EXCEPT !.controller.enabled = ~@]
  IN  IF ~s1.controller.enabled THEN synthCancel(s1) ELSE s1

toggle(s) ==
  LET s1 == [s EXCEPT !.controller.enabled = ~@]
  IN  IF ~s1.controller.enabled
      THEN [synthCancel(s1) EXCEPT !.injector.queue = <<>>]
      ELSE s1

GenreKeys == {"g1", "g2"}

registerGenre(s, r) ==
  LET tracks == [i \in 1..Len(r.tracks) |-> TagTrack(r.tracks[i], r.key)]
  IN  [s EXCEPT !.genrePools[r.key] = [registered |-> TRUE, tracks |-> tracks],
                !.masterLibrary = @ \o tracks,
                !.fallbackStream = IF @ = NoUrl /\ r.stream # NoUrl THEN r.stream ELSE @]

RegisterGenreTasks(r) ==
  IF Len(masterLibrary) + Len(r.tracks) <= MaxLibrary
  THEN {Microtasks(registerGenre(State, r))} ELSE {}

RegisterGenre(r) == \E t \in RegisterGenreTasks(r) : Becomes(t)

SetFilterTasks(filter) ==
  {Microtasks(setFilter(State, filter, q)) : q \in buildEnergyQueue(masterLibrary, filter)}

SetFilter(filter) == \E t \in SetFilterTasks(filter) : Becomes(t)

PlayTasks ==
  {Microtasks(play(State, q)) :
     q \in (IF Len(queue) = 0 THEN buildEnergyQueue(masterLibrary, activeFilter)
            ELSE {<<>>})}

Play == \E t \in PlayTasks : Becomes(t)

Pause == Becomes(Microtasks(pause(State)))

StopTasks == {Microtasks(stop(State))}

Stop == \E t \in StopTasks : Becomes(t)

\* The queues a next() in state s may get from _buildEnergyQueue.
Rebuilds(s) ==
  IF NextWraps(s) THEN buildEnergyQueue(s.masterLibrary, s.activeFilter) ELSE {<<>>}

NextTasks == {Microtasks(next(State, q)) : q \in Rebuilds(State)}

CallNext == \E t \in NextTasks : Becomes(t)

PreviousTasks == {Microtasks(previous(State))}

Previous == \E t \in PreviousTasks : Becomes(t)

\* The element has buffered enough to play: readyState >= HAVE_FUTURE_DATA.
DeckReady(k) ==
  /\ players[k].net = "loading"
  /\ LET s1 == [State EXCEPT !.players[k].net = "ready"]
         s2 == IF s1.players[k].paused THEN s1 ELSE SettlePending(s1, k, "resolving")
     IN  Becomes(Microtasks(s2))

\* The source cannot be loaded: the error event, then the play promises.
DeckErrorTasks(k) ==
  IF players[k].net = "loading"
  THEN {Microtasks(SettlePending(onError([State EXCEPT !.players[k].net = "failed"], k),
                                 k, "rejected"))}
  ELSE {}

DeckError(k) == \E t \in DeckErrorTasks(k) : Becomes(t)

Playing(s, k) == ~s.players[k].paused /\ s.players[k].net = "ready"

TimeUpdateTasks(k, p) ==
  IF Playing(State, k) /\ players[k].pos < p
  THEN {Microtasks(onTimeUpdate([State EXCEPT !.players[k].pos = p], k))}
  ELSE {}

TimeUpdate(k, p) == \E t \in TimeUpdateTasks(k, p) : Becomes(t)

\* Playback reaches the end: timeupdate, the element pauses, ended.
EndedTasks(k) ==
  IF Playing(State, k) /\ players[k].src # Stream /\ players[k].pos < TrackDuration
  THEN LET s1 == onTimeUpdate([State EXCEPT !.players[k].pos = TrackDuration], k)
           s2 == SettlePending([s1 EXCEPT !.players[k].paused = TRUE], k, "rejected")
       IN  {Microtasks(onEnded(s2, k, q)) : q \in Rebuilds(s2)}
  ELSE {}

Ended(k) == \E t \in EndedTasks(k) : Becomes(t)

PlayResolved(i) ==
  /\ playCalls[i].stage = "resolving"
  /\ Becomes(Microtasks(playResume(State, i)))

PlayRejected(i) ==
  /\ playCalls[i].stage = "rejecting"
  /\ Becomes(Microtasks(playAbort(State, i)))

CrossfadePlayResolved(i) ==
  /\ sessions[i].stage = "resolving"
  /\ Becomes(Microtasks(crossfadeResume(State, i)))

\* The awaited play() promise of invocation i is rejected in a task of its own.
CrossfadePlayRejectedTasks(i) ==
  IF sessions[i].stage = "rejecting" THEN {Microtasks(crossfadeAbort(State, i))} ELSE {}

CrossfadePlayRejected(i) == \E t \in CrossfadePlayRejectedTasks(i) : Becomes(t)

\* An animation frame: the pending doFade callback of invocation i runs.
FrameTasks(i, elapsed) ==
  IF sessions[i].stage = "ramp" /\ elapsed >= sessions[i].elapsed
  THEN {Microtasks(doFade(State, i, elapsed))} ELSE {}

Frame(i, elapsed) == \E t \in FrameTasks(i, elapsed) : Becomes(t)

\* setTimeout(() => this.next(), 500) fires.
RetryTimerTasks ==
  IF timers > 0
  THEN {Microtasks(next([State EXCEPT !.timers = @ - 1], q)) : q \in Rebuilds(State)}
  ELSE {}

RetryTimer == \E t \in RetryTimerTasks : Becomes(t)

(***************************************************************************)
(* The engine as its constructor leaves it.                                *)
(***************************************************************************)
NoGenres ==
  [masterLibrary |-> <<>>,
   genrePools |-> [k \in GenreKeys |-> [registered |-> FALSE, tracks |-> <<>>]],
   fallbackStream |-> NoUrl]

\* reg: what the registerGenre calls made so far have left
Constructed(reg) ==
  /\ masterLibrary = reg.masterLibrary
  /\ genrePools = reg.genrePools
  /\ fallbackStream = reg.fallbackStream
  /\ activeFilter = "all"
  /\ queue = <<>>
  /\ queueIndex = -1
  /\ currentTrack = NoTrack
  /\ isTrackMode = FALSE
  /\ energyPhase = "build"
  /\ tracksInPhase = 0
  /\ audioContext = FALSE
  /\ bassBoost = 0
  /\ players = [k \in Decks |->
                  [src |-> NoUrl, paused |-> TRUE, pos |-> 0, net |-> "empty",
                   connected |-> FALSE, gain |-> 0,
                   volume |-> IF k = "A" THEN defaultVolume * Unit ELSE 0]]
  /\ activePlayer = "A"
  /\ isCrossfading = FALSE
  /\ crossfadeRAF = 0
  /\ isPlaying = FALSE
  /\ sessions = [i \in 1..MaxSessions |-> IdleSession]
  /\ playCalls = [i \in 1..MaxPlayCalls |-> IdleCall]
  /\ timers = 0
  /\ currentVolume = defaultVolume * Unit
  /\ masterGain = NoGain
  /\ voiceSynth = [isReady |-> FALSE, utterance |-> NoUtterance]
  /\ injector = [queue |-> <<>>, isSpeaking |-> FALSE, originalVolume |-> Unit]
  /\ controller = [enabled |-> TRUE, hasSpokenIntro |-> FALSE, transitionsCount |-> 0,
                   isPrepared |-> FALSE]

RECURSIVE RegisterAll(_, _)
RegisterAll(s, rs) ==
  IF rs = <<>> THEN s ELSE RegisterAll(registerGenre(s, Head(rs)), Tail(rs))

\* The genres the page registers when it boots.
Startup ==
  << [key |-> "g1", stream |-> Stream,
      tracks |-> << [url |-> "u1", energy |-> "low", bpm |-> 0] >>],
     [key |-> "g2", stream |-> NoUrl,
      tracks |-> << [url |-> "u2", energy |-> "high", bpm |-> 0] >> ] >>

\* Track advances since the arc was last reset to (build, 0), modulo 8.
RECURSIVE TracksBefore(_)
TracksBefore(i) ==
  IF i = 1 THEN 0 ELSE TracksBefore(i - 1) + phaseConfig[Phases[i - 1]].tracks

PhasePosition ==
  TracksBefore(CHOOSE i \in 1..Len(Phases) : Phases[i] = energyPhase) + tracksInPhase

\* Clock readings of animation frames, as elapsed ms since startTime.
FullRamp == {DurationMs}
Elapsed == {DurationMs \div 2} \cup FullRamp

(***************************************************************************)
(* Spec: the decks, the crossfade engine and the transport controls, with  *)
(* the startup library registered and sources that load.  The model        *)
(* follows the engine for MaxAdvance track advances after a filter change. *)
(***************************************************************************)
Init ==
  /\ webAudio = TRUE
  /\ Constructed(RegisterAll(NoGenres, Startup))

Capped ==
  /\ queueIndex <= MaxAdvance
  /\ PhasePosition <= MaxAdvance
  /\ bassBoost <= BassBase + BassLift * MaxBassLifts

\* Playback position a timeupdate may report inside the crossfade window, ms.
NearEnd == TrackDuration - DurationMs \div 2

Next ==
  \/ SetFilter("all") /\ Capped'
  \/ Play /\ Capped'
  \/ Pause /\ Capped'
  \/ Stop /\ Capped'
  \/ CallNext /\ Capped'
  \/ Previous /\ Capped'
  \/ \E k \in Decks : DeckReady(k) /\ Capped'
  \/ \E k \in Decks : TimeUpdate(k, NearEnd) /\ Capped'
  \/ \E k \in Decks : Ended(k) /\ Capped'
  \/ \E i \in 1..MaxPlayCalls : PlayResolved(i) /\ Capped'
  \/ \E i \in 1..MaxPlayCalls : PlayRejected(i) /\ Capped'
  \/ \E i \in 1..MaxSessions : CrossfadePlayResolved(i) /\ Capped'
  \/ \E i \in 1..MaxSessions : CrossfadePlayRejected(i) /\ Capped'
  \/ \E i \in 1..MaxSessions, e \in Elapsed : Frame(i, e) /\ Capped'

Spec == Init /\ [][Next]_vars

(***************************************************************************)
(* SpecErrors: the same, with sources that may fail to load and the retry  *)
(* timer; animation frames are late (one frame ends the ramp).             *)
(***************************************************************************)
NextErrors ==
  \/ SetFilter("all") /\ Capped'
  \/ Play /\ Capped'
  \/ Pause /\ Capped'
  \/ Stop /\ Capped'
  \/ CallNext /\ Capped'
  \/ Previous /\ Capped'
  \/ \E k \in Decks : DeckReady(k) /\ Capped'
  \/ \E k \in Decks : DeckError(k) /\ Capped'
  \/ \E k \in Decks : TimeUpdate(k, NearEnd) /\ Capped'
  \/ \E k \in Decks : Ended(k) /\ Capped'
  \/ \E i \in 1..MaxPlayCalls : PlayResolved(i) /\ Capped'
  \/ \E i \in 1..MaxPlayCalls : PlayRejected(i) /\ Capped'
  \/ \E i \in 1..MaxSessions : CrossfadePlayResolved(i) /\ Capped'
  \/ \E i \in 1..MaxSessions : CrossfadePlayRejected(i) /\ Capped'
  \/ \E i \in 1..MaxSessions, e \in FullRamp : Frame(i, e) /\ Capped'
  \/ RetryTimer /\ Capped'

SpecErrors == Init /\ [][NextErrors]_vars

(***************************************************************************)
(* SpecQueue: the queue cursor over whole laps of the queue.  The engine   *)
(* starts as constructed, with no genre registered.  The listener moves    *)
(* through the queue between transitions: play, next and previous are      *)
(* called, and time passes, when no deck is loading and no play() or       *)
(* crossfade is in flight; the filter is set at any time.                  *)
(***************************************************************************)
Registrations ==
  { [key |-> "g1", stream |-> Stream,
     tracks |-> << [url |-> "u1", energy |-> "low", bpm |-> 0],
                   [url |-> "u2", energy |-> "high", bpm |-> 0],
                   [url |-> NoUrl, energy |-> "", bpm |-> 0] >>] }

\* Filter values: "all", a registered genre key, an unknown key.
Filters == {"all", "g1", "gx"}

\* Playback positions a timeupdate may report, ms.
Positions == {1500, 5000, NearEnd}

Quiet ==
  /\ \A k \in Decks : players[k].net # "loading"
  /\ \A i \in 1..MaxSessions : sessions[i].stage = "idle"
  /\ \A i \in 1..MaxPlayCalls : playCalls[i].stage = "idle"

InitQueue ==
  /\ webAudio = TRUE
  /\ Constructed(NoGenres)

NextQueue ==
  \/ \E r \in Registrations : Quiet /\ RegisterGenre(r)
  \/ \E f \in Filters : SetFilter(f)
  \/ Quiet /\ Play
  \/ Quiet /\ CallNext
  \/ Quiet /\ Previous
  \/ \E k \in Decks, p \in Positions : Quiet /\ TimeUpdate(k, p)
  \/ \E k \in Decks : Quiet /\ Ended(k)
  \/ \E k \in Decks : DeckReady(k)
  \/ \E i \in 1..MaxPlayCalls : PlayResolved(i)
  \/ \E i \in 1..MaxSessions : CrossfadePlayResolved(i)
  \/ \E i \in 1..MaxSessions, e \in FullRamp : Frame(i, e)

SpecQueue == InitQueue /\ [][NextQueue]_vars

(***************************************************************************)
(* SpecBuilder: the queue builder on every small library.  The engine      *)
(* starts with up to MaxLibrary tracks registered in two genres; the       *)
(* methods that build a queue are then called.                             *)
(***************************************************************************)
SeqsUpTo(S, n) == UNION {[1..k -> S] : k \in 0..n}

\* Tracks as the page hands them to registerGenre: energy "low", "mid",
\* "high", a normalized number ("0.5") or none (""); bpm 0 is none.
TracksOfG1 ==
  { [url |-> "u1", energy |-> "low", bpm |-> 120],
    [url |-> "u4", energy |-> "0.5", bpm |-> 124] }

TracksOfG2 ==
  { [url |-> "u2", energy |-> "", bpm |-> 0],
    [url |-> "u3", energy |-> "high", bpm |-> 128] }

Libraries ==
  { << [key |-> "g1", stream |-> Stream, tracks |-> t1],
       [key |-> "g2", stream |-> NoUrl, tracks |-> t2] >> :
      t1 \in SeqsUpTo(TracksOfG1, MaxLibrary),
      t2 \in SeqsUpTo(TracksOfG2, MaxLibrary) }

BuilderFilters == {"all", "g1", "g2", "gx"}

InitBuilder ==
  /\ webAudio = TRUE
  /\ \E lib \in Libraries :
       /\ Len(lib[1].tracks) + Len(lib[2].tracks) <= MaxLibrary
       /\ Constructed(RegisterAll(NoGenres, lib))

NextBuilder ==
  \/ \E f \in BuilderFilters : SetFilter(f)
  \/ Play

SpecBuilder == InitBuilder /\ [][NextBuilder]_vars

(***************************************************************************)
(* Properties.                                                             *)
(***************************************************************************)
Entries(t) == {t.log[n] : n \in 1..Len(t.log)}

\* The _crossfadeToSource calls a task made.
Requests(t) == {e \in Entries(t) : e.kind = "call" /\ e.name = "crossfadeToSource"}

\* Invocations of _crossfadeToSource that await a play() not yet settled, or
\* hold an animation frame.
InFlight == {i \in 1..MaxSessions : sessions[i].stage \in {"pending", "resolving", "ramp"}}

\* C1: at most one crossfade session is in flight (awaiting the incoming
\* deck's play() or ramping), and a ramp step (a pending doFade frame) only
\* runs while isCrossfading is true.
C1OneSessionInFlight ==
  /\ Cardinality(InFlight) <= 1
  /\ \A i \in 1..MaxSessions : sessions[i].stage = "ramp" => isCrossfading

\* C3: when both decks are connected and no crossfade is flagged, the active
\* deck's gain is 1 and the inactive deck's gain is 0.
C3GainInvariant ==
  (players["A"].connected /\ players["B"].connected /\ ~isCrossfading)
    => /\ players[activePlayer].gain = Unit
       /\ players[Other(activePlayer)].gain = 0

\* C4: a stop() called while a session awaits the incoming deck's play() or
\* is mid-ramp leaves isPlaying and isCrossfading false and both decks paused
\* at position 0, and leaves that session nothing to run: no awaited play()
\* that may still resolve and no frame, so that it cannot ramp, change a
\* gain, flip activePlayer or fire trackChange/stateChange afterwards.
C4StopCancelsCrossfade ==
  [][(Stop /\ InFlight # {})
       => /\ ~isPlaying' /\ ~isCrossfading'
          /\ \A k \in Decks : players'[k].paused /\ players'[k].pos = 0
          /\ \A i \in InFlight : sessions'[i].stage \in {"idle", "rejecting"}]_vars

\* The incoming deck's play() of invocation i fails: its source fails to load
\* while the promise is pending, or the promise is rejected in a later task.
FailedPlayTasks(i) ==
  (IF sessions[i].stage = "pending" THEN DeckErrorTasks(sessions[i].in) ELSE {})
    \cup CrossfadePlayRejectedTasks(i)

\* C5: when the incoming deck's play() fails, the invocation ends with
\* isCrossfading false, activePlayer and both gains unchanged, and the
\* outgoing deck neither paused nor rewound.
C5FailedPlayAborts ==
  \A i \in 1..MaxSessions : \A t \in FailedPlayTasks(i) :
    /\ t.sessions[i].stage = "idle"
    /\ ~t.isCrossfading
    /\ t.activePlayer = activePlayer
    /\ \A k \in Decks : t.players[k].gain = players[k].gain
    /\ t.players[sessions[i].out].paused = players[sessions[i].out].paused
    /\ t.players[sessions[i].out].pos = players[sessions[i].out].pos

\* A crossfade awaits play() on a deck whose source is still loading, and
\* the outgoing deck plays.
C5Witness ==
  \E i \in 1..MaxSessions :
    /\ sessions[i].stage = "pending"
    /\ DeckErrorTasks(sessions[i].in) # {}
    /\ sessions[i].out = activePlayer
    /\ Playing(State, activePlayer)

\* What the handler of a notification sees of the swap.
Swapped(seen, out, in) ==
  /\ seen.activePlayer = in
  /\ ~seen.isCrossfading
  /\ seen.players[out].paused
  /\ seen.players[out].pos = 0
  /\ seen.players[out].gain = 0

Fired(t, name) == {e \in Entries(t) : e.kind = "event" /\ e.name = name}

\* C6: the frame that reaches progress 1 leaves the outgoing deck paused,
\* rewound and at gain 0, activePlayer on the deck that was inactive when the
\* invocation started, and isCrossfading false; it fires trackChange and
\* stateChange once each, and their handlers already see all of that.
C6CompletionThenNotify ==
  \A i \in 1..MaxSessions : \A t \in FrameTasks(i, DurationMs) :
    LET out == sessions[i].out
        in  == sessions[i].in
    IN  /\ in = Other(out)
        /\ Swapped(Seen(t), out, in)
        /\ Cardinality(Fired(t, "trackChange")) = 1
        /\ Cardinality(Fired(t, "stateChange")) = 1
        /\ \A e \in Fired(t, "trackChange") \cup Fired(t, "stateChange") :
             Swapped(e.seen, out, in)

\* A ramp is half way: the frame that ends it is next.
C6Witness ==
  \E i \in 1..MaxSessions :
    /\ sessions[i].stage = "ramp"
    /\ sessions[i].elapsed = DurationMs \div 2
    /\ sessions[i].out = activePlayer
    /\ isCrossfading

\* The tasks of SpecQueue that may ask for a crossfade.
QueueRequestTasks ==
  UNION {SetFilterTasks(f) : f \in Filters}
    \cup (IF Quiet
          THEN NextTasks \cup PreviousTasks
                 \cup UNION {TimeUpdateTasks(k, p) : k \in Decks, p \in Positions}
                 \cup UNION {EndedTasks(k) : k \in Decks}
          ELSE {})

\* C2: a _crossfadeToSource call made with an empty url or while
\* isCrossfading is true returns with activePlayer, isCrossfading, both decks
\* (source, gain, playback) and the invocations in flight as it found them.
C2DroppedRequestIsNoOp ==
  \A t \in QueueRequestTasks : \A e \in Requests(t) :
    (e.data.url = NoUrl \/ e.seen.isCrossfading) => e.left = e.seen

\* A request is about to be made while a crossfade is in flight.
C2Witness ==
  \E t \in QueueRequestTasks : \E e \in Requests(t) :
    e.data.url # NoUrl /\ e.seen.isCrossfading /\ e.seen.isPlaying

\* C7: with a non-empty queue, 0 <= queueIndex < queue.length.
C7CursorInRange ==
  Len(queue) > 0 => (0 <= queueIndex /\ queueIndex < Len(queue))

\* previous() has wrapped the cursor from 0 to the last index.
C7Witness ==
  /\ Len(queue) > 0
  /\ queueIndex = Len(queue) - 1
  /\ isPlaying

\* The tasks of SpecQueue that advance the cursor.
QueueAdvanceTasks ==
  IF Quiet
  THEN NextTasks \cup UNION {TimeUpdateTasks(k, p) : k \in Decks, p \in Positions}
         \cup UNION {EndedTasks(k) : k \in Decks}
  ELSE {}

\* C9: a task that takes the cursor from the last index to 0 calls
\* _buildEnergyQueue.
C9WrapRebuilds ==
  \A t \in QueueAdvanceTasks :
    (Len(queue) > 0 /\ queueIndex = Len(queue) - 1 /\ t.queueIndex = 0)
      => \E e \in Entries(t) : e.kind = "call" /\ e.name = "buildEnergyQueue"

PreviousInTrackMode == isTrackMode /\ Len(queue) > 0

\* C10 as claimed: previous() in track mode restarts the track (position 0,
\* same queueIndex) within the first 3 seconds, and moves the cursor back by
\* one modulo the queue length later.
C10RestartsEarly ==
  \A t \in PreviousTasks :
    PreviousInTrackMode =>
      IF players[activePlayer].pos <= RestartAfter * 1000
      THEN t.players[activePlayer].pos = 0 /\ t.queueIndex = queueIndex
      ELSE t.queueIndex = (queueIndex - 1 + Len(queue)) % Len(queue)

\* C10 as amended: previous() in track mode restarts the track (position 0,
\* same queueIndex) when more than 3 seconds have played, and moves the
\* cursor back by one modulo the queue length otherwise.
C10RestartsLate ==
  \A t \in PreviousTasks :
    PreviousInTrackMode =>
      IF players[activePlayer].pos > RestartAfter * 1000
      THEN t.players[activePlayer].pos = 0 /\ t.queueIndex = queueIndex
      ELSE t.queueIndex = (queueIndex - 1 + Len(queue)) % Len(queue)

\* previous() is due 5 s into a track that is not the first of the queue.
C10Witness ==
  /\ PreviousInTrackMode /\ Quiet
  /\ isPlaying
  /\ players[activePlayer].pos = 5000
  /\ queueIndex > 0

\* C8: the builder returns a non-empty queue for a non-empty library and any
\* filter; so once play() or setFilter() has built the queue (queueIndex is
\* no longer -1), the queue is non-empty and the engine is in track mode.
C8QueueNonEmpty ==
  Len(masterLibrary) > 0 =>
    /\ \A f \in BuilderFilters : \A q \in buildEnergyQueue(masterLibrary, f) : Len(q) > 0
    /\ queueIndex >= 0 => (Len(queue) > 0 /\ isTrackMode)

\* Position in the arc: tracks advanced since (build, 0), and its length.
ArcPosition(phase, n) ==
  TracksBefore(CHOOSE i \in 1..Len(Phases) : Phases[i] = phase) + n

ArcLength == TracksBefore(Len(Phases) + 1)

RECURSIVE AdvanceTimes(_, _)
AdvanceTimes(s, n) == IF n = 0 THEN s ELSE AdvanceTimes(advanceEnergyPhase(s), n - 1)

\* What one track advance does to the arc, as task t leaves it.
AdvancedOnce(t) ==
  LET config  == phaseConfig[energyPhase]
      changes == Fired(t, "energyPhaseChange")
  IN  /\ ArcPosition(t.energyPhase, t.tracksInPhase)
           = (ArcPosition(energyPhase, tracksInPhase) + 1) % ArcLength
      /\ IF tracksInPhase + 1 = config.tracks
         THEN /\ t.energyPhase = config.nextPhase
              /\ t.tracksInPhase = 0
              /\ Cardinality(changes) = 1
              /\ \A e \in changes : e.data = [from |-> energyPhase, to |-> config.nextPhase]
         ELSE /\ t.energyPhase = energyPhase
              /\ t.tracksInPhase = tracksInPhase + 1
              /\ changes = {}

ArcUntouched(t) ==
  /\ t.energyPhase = energyPhase
  /\ t.tracksInPhase = tracksInPhase
  /\ Fired(t, "energyPhaseChange") = {}

C11Tasks ==
  /\ tracksInPhase < phaseConfig[energyPhase].tracks
  /\ \A t \in QueueAdvanceTasks :
       IF t.queueIndex # queueIndex THEN AdvancedOnce(t) ELSE ArcUntouched(t)
  /\ Quiet => \A t \in PreviousTasks : ArcUntouched(t)
  /\ \A f \in Filters : \A t \in SetFilterTasks(f) :
       t.energyPhase = "build" /\ t.tracksInPhase = 0
  /\ (energyPhase = "build" /\ tracksInPhase = 0) =>
       LET t == AdvanceTimes(State, ArcLength)
       IN  /\ t.energyPhase = "build" /\ t.tracksInPhase = 0
           /\ Cardinality(Fired(t, "energyPhaseChange")) = Len(Phases)

C11Step ==
  \/ energyPhase' = energyPhase
  \/ energyPhase' = phaseConfig[energyPhase].nextPhase
  \/ energyPhase' = "build" /\ \E f \in Filters : SetFilter(f)

\* C11: a track advance (the cursor moves on) adds one to tracksInPhase;
\* exactly when the count of the phase is reached the phase becomes its
\* successor, the counter 0, and one energyPhaseChange is fired; 8 advances
\* from (build, 0) lead back to (build, 0); the phase only ever changes to its
\* successor, or to build in setFilter.
C11PhaseCycle == []C11Tasks /\ [][C11Step]_vars

\* The arc is on its last track (cooldown): the next advance closes the cycle.
C11Witness ==
  /\ energyPhase = "cooldown"
  /\ Quiet /\ isPlaying /\ isTrackMode
  /\ \E t \in NextTasks : t.energyPhase = "build"

\* setFilter(f) made a fresh _buildEnergyQueue(f) call.
BuiltFor(t, f) ==
  \E e \in Entries(t) :
    e.kind = "call" /\ e.name = "buildEnergyQueue" /\ e.data = [filter |-> f]

\* A crossfade from the active deck is in flight, its incoming deck holding url.
CrossfadingTo(t, url) ==
  \E i \in 1..MaxSessions :
    /\ t.sessions[i].stage \in {"pending", "resolving", "ramp"}
    /\ t.sessions[i].out = t.activePlayer
    /\ t.players[t.sessions[i].in].src = url
    /\ ~t.players[t.sessions[i].in].paused

\* C12: setFilter(key) leaves activeFilter = key, a freshly built queue,
\* queueIndex 0 and the arc at (build, 0).  With a head track (one that has a
\* url): if the engine was playing, a crossfade to queue[0] is under way, so
\* that queue[0] plays on the active deck once it completes; if it was not,
\* queue[0] is loaded into the active deck and is currentTrack.
C12SetFilterResets ==
  \A f \in Filters : \A t \in SetFilterTasks(f) :
    /\ t.activeFilter = f
    /\ BuiltFor(t, f)
    /\ t.queueIndex = 0
    /\ t.energyPhase = "build" /\ t.tracksInPhase = 0
    /\ (Len(t.queue) > 0 /\ t.queue[1] # NoUrl) =>
         IF isPlaying
         THEN CrossfadingTo(t, t.queue[1])
         ELSE /\ t.players[t.activePlayer].src = t.queue[1]
              /\ t.currentTrack.kind = "track"
              /\ t.currentTrack.url = t.queue[1]
              /\ t.currentTrack.index = 0

\* What the error listener and the retry timer do, task by task.
C13Tasks ==
  /\ \A k \in Decks : \A t \in DeckErrorTasks(k) :
       ~t.overflow =>
         /\ Cardinality({e \in Fired(t, "error") :
                           e.data = [type |-> "playback", player |-> k]}) = 1
         /\ t.timers = timers + (IF k = activePlayer /\ isTrackMode THEN 1 ELSE 0)
         /\ t.queueIndex = queueIndex
         /\ \A i \in 1..MaxPlayCalls :
              (playCalls[i].stage = "pending" /\ playCalls[i].deck = k)
                => t.playCalls[i].stage = "idle"
  /\ \A t \in RetryTimerTasks :
       ~t.overflow =>
         /\ t.timers = timers - 1
         /\ (isTrackMode /\ Len(queue) > 0)
              => t.queueIndex = (queueIndex + 1) % Len(queue)
         /\ ~(isTrackMode /\ Len(queue) > 0) => t.queueIndex = queueIndex

C13Step ==
  /\ timers' > timers => /\ timers' = timers + 1
                         /\ DeckError(activePlayer)
                         /\ isTrackMode
  /\ timers' < timers => timers' = timers - 1 /\ RetryTimer

\* C13: an error event of the active deck in track mode is reported through
\* the error notification (a pending play() is caught, not thrown) and
\* schedules one next(), which runs later in a task of its own and advances
\* the cursor once; nothing else schedules or runs an automatic next().
C13OneRetryPerFailure == []C13Tasks /\ [][C13Step]_vars

\* The active deck has failed in track mode and its retry is pending.
C13Witness ==
  /\ timers = 1
  /\ isTrackMode /\ Len(queue) > 0
  /\ players[activePlayer].net = "failed"
  /\ RetryTimerTasks # {}

(***************************************************************************)
(* SpecHeal: the engine left to itself.  The startup library is            *)
(* registered, play() is called once, and from then on only the browser    *)
(* acts: sources load or fail, time passes, promises settle, frames run.   *)
(* One url of the library cannot be played; every other url loads.         *)
(***************************************************************************)
BadUrl == "u2"

SourceLoads(k) == players[k].src # BadUrl /\ DeckReady(k)

SourceFails(k) == players[k].src = BadUrl /\ DeckError(k)

FirstPlay == queueIndex = -1 /\ Play

\* Playback positions inside the crossfade window, ms.
WindowPositions == {NearEnd, NearEnd + 1000}

NextHeal ==
  \/ FirstPlay
  \/ \E k \in Decks : SourceLoads(k)
  \/ \E k \in Decks : SourceFails(k)
  \/ \E k \in Decks, p \in WindowPositions : TimeUpdate(k, p)
  \/ \E k \in Decks : Ended(k)
  \/ \E i \in 1..MaxPlayCalls : PlayResolved(i)
  \/ \E i \in 1..MaxSessions : CrossfadePlayResolved(i)
  \/ \E i \in 1..MaxSessions, e \in FullRamp : Frame(i, e)

\* What the browser owes the engine: a source that is loading loads or
\* fails, a play() promise that can be settled is settled, and a requested
\* animation frame runs.  The last two are stated on what the step does to
\* the record of the invocation (the play() call resumes and is over; the
\* ramp ends and the invocation is over).  Playback needs no fairness: while
\* the active deck plays, there is no silence.
PlaySettles(i) ==
  /\ playCalls[i].stage = "resolving"
  /\ playCalls' = [playCalls EXCEPT ![i] = IdleCall]

RampEnds(i) ==
  /\ sessions[i].stage = "ramp"
  /\ sessions' = [sessions EXCEPT ![i] = IdleSession]

FairHeal ==
  /\ \A k \in Decks : WF_vars(SourceLoads(k))
  /\ \A k \in Decks : WF_vars(SourceFails(k))
  /\ \A i \in 1..MaxPlayCalls : WF_playCalls(PlaySettles(i))
  /\ \A i \in 1..MaxSessions : WF_vars(CrossfadePlayResolved(i))
  /\ \A i \in 1..MaxSessions : WF_sessions(RampEnds(i))

SpecHeal == Init /\ [][NextHeal]_vars /\ FairHeal

\* The active deck plays a queue track that can be played.
Healthy ==
  /\ Playing(State, activePlayer)
  /\ players[activePlayer].src # BadUrl
  /\ \E n \in 1..Len(queue) : queue[n] = players[activePlayer].src

\* C14: with isPlaying true in track mode and one unplayable url, the engine
\* on its own always comes back to a state where the active deck plays a
\* playable queue track: it never stays silent for ever.
C14SelfHeals == (isPlaying /\ isTrackMode) ~> Healthy

(***************************************************************************)
(* SpecNarration: the narration subsystem beside an engine that is started *)
(* and whose volume the listener changes.  The host page calls             *)
(* prepareTransition, executeTransition, speakIntro and toggle at any      *)
(* time; the platform may be without Web Audio, loads its voices late and  *)
(* may throw inside speak().                                               *)
(***************************************************************************)
\* Values setVolume is called with, in thousandths: 1, 0.4, 1.4 and -0.2.
Volumes == {Unit, (2 * Unit) \div 5, (7 * Unit) \div 5, 0 - (Unit \div 5)}

\* Tracks handed to prepareTransition; NoUrl stands for a missing track.
NextTracks == {"u1", NoUrl}

SetVolumeTasks(value) ==
  IF value # currentVolume THEN {Microtasks(setVolume(State, value))} ELSE {}

SetVolume(value) == \E t \in SetVolumeTasks(value) : Becomes(t)

PrepareTransitionTasks(nextTrack) == {Microtasks(prepareTransition(State, nextTrack))}

PrepareTransition(nextTrack) == \E t \in PrepareTransitionTasks(nextTrack) : Becomes(t)

ExecuteTransitionTasks == {Microtasks(executeTransition(State, throws)) : throws \in BOOLEAN}

ExecuteTransition == \E t \in ExecuteTransitionTasks : Becomes(t)

SpeakIntroTasks == {Microtasks(speakIntro(State, throws)) : throws \in BOOLEAN}

SpeakIntro == \E t \in SpeakIntroTasks : Becomes(t)

ToggleTasks == {Microtasks(toggle(State))}

Toggle == \E t \in ToggleTasks : Becomes(t)

\* The utterance's end or error event: both run the same closure.
UtteranceDoneTasks ==
  IF voiceSynth.utterance.state # "none" THEN {Microtasks(utteranceDone(State))} ELSE {}

UtteranceDone == \E t \in UtteranceDoneTasks : Becomes(t)

\* speechSynthesis.onvoiceschanged: _loadVoices finds voices.
VoicesChanged ==
  /\ ~voiceSynth.isReady
  /\ Becomes([State EXCEPT !.voiceSynth.isReady = TRUE])

\* Audio time passes: the first scheduled ramp of the master gain ends.
RampDone ==
  /\ masterGain.ramps # <<>>
  /\ Becomes([State EXCEPT !.masterGain.value = Head(masterGain.ramps),
                           !.masterGain.ramps = Tail(@)])

InitNarration ==
  /\ webAudio \in BOOLEAN
  /\ Constructed(RegisterAll(NoGenres, Startup))

NextNarration ==
  \/ Play
  \/ \E k \in Decks : DeckReady(k)
  \/ \E i \in 1..MaxPlayCalls : PlayResolved(i)
  \/ \E value \in Volumes : SetVolume(value)
  \/ \E nextTrack \in NextTracks : PrepareTransition(nextTrack)
  \/ ExecuteTransition
  \/ SpeakIntro
  \/ Toggle
  \/ UtteranceDone
  \/ VoicesChanged
  \/ RampDone

SpecNarration == InitNarration /\ [][NextNarration]_vars

\* The injector speaks exactly while an utterance is out.
SpeakingIffUtterance == injector.isSpeaking <=> voiceSynth.utterance.state # "none"

\* The calls a task made to a completion callback.
Completions(t) == {e \in Entries(t) : e.kind = "call" /\ e.name = "onComplete"}

\* The music level is (on its way) back at level: the only ramp scheduled on
\* the master gain leads there, or, without the graph, the volume is there.
Unducked(t, level) ==
  IF t.masterGain.node
  THEN t.masterGain.ramps = <<level>>
  ELSE t.currentVolume = level /\ t.players[t.activePlayer].volume = level

\* A text is played and the synthesis fails on the spot: there are no voices,
\* or speak() throws.
Failing == {throws \in BOOLEAN : throws \/ ~voiceSynth.isReady}

FailedSpeechTasks ==
  (IF controller.enabled /\ ~injector.isSpeaking /\ Len(injector.queue) > 0
   THEN {Microtasks(executeTransition(State, throws)) : throws \in Failing} ELSE {})
  \cup
  (IF controller.enabled /\ ~injector.isSpeaking /\ ~controller.hasSpokenIntro
   THEN {Microtasks(speakIntro(State, throws)) : throws \in Failing} ELSE {})

C15WitnessUtterance ==
  /\ isPlaying
  /\ voiceSynth.utterance.state = "speaking"
  /\ UtteranceDoneTasks # {}

\* The narration requests a host can make while narration is enabled.
RequestTasks == ExecuteTransitionTasks \cup SpeakIntroTasks

\* C16: a narration request made while isSpeaking is true starts no second
\* utterance and no second duck, and leaves the pending FIFO,
\* transitionsCount and isPrepared as they were.
C16RequestWhileSpeaking ==
  injector.isSpeaking =>
    \A t \in RequestTasks :
      ~t.overflow =>
        /\ \A e \in Entries(t) : e.name # "speak"
        /\ t.voiceSynth = voiceSynth
        /\ t.masterGain = masterGain
        /\ t.currentVolume = currentVolume
        /\ t.injector = injector
        /\ t.controller.transitionsCount = controller.transitionsCount
        /\ t.controller.isPrepared = controller.isPrepared

\* Every call a host can make to the controller's narration methods.
NarrationTasks ==
  RequestTasks \cup UNION {PrepareTransitionTasks(nextTrack) : nextTrack \in NextTracks}

\* C17: right after toggle() switches narration off no utterance is being
\* spoken and the pending FIFO is empty; while narration is disabled it stays
\* so, and prepareTransition, executeTransition and speakIntro neither
\* enqueue nor speak anything.
C17DisabledIsSilent ==
  /\ controller.enabled =>
       \A t \in ToggleTasks :
         /\ ~t.controller.enabled
         /\ t.voiceSynth.utterance.state # "speaking"
         /\ t.injector.queue = <<>>
  /\ ~controller.enabled =>
       /\ voiceSynth.utterance.state # "speaking"
       /\ injector.queue = <<>>
       /\ \A t \in NarrationTasks :
            /\ \A e \in Entries(t) : e.name # "speak"
            /\ t.injector = injector
            /\ t.voiceSynth = voiceSynth
            /\ t.controller = controller

\* Narration is on, a text is being spoken and another one is pending: the
\* toggle has speech to cancel and a FIFO to clear.
C17Witness ==
  /\ controller.enabled
  /\ voiceSynth.utterance.state = "speaking"
  /\ injector.queue # <<>>
  /\ \E t \in ToggleTasks : t.voiceSynth.utterance.state = "cancelled"

\* The transition scripts pending in a FIFO.
Scripts(fifo) == {i \in 1..Len(fifo) : fifo[i].kind = "transition"}

\* A prepareTransition call enqueues one script when none is prepared, and
\* nothing when one is.
PreparesOnce(t, nextTrack) ==
  IF controller.enabled /\ ~controller.isPrepared /\ nextTrack # NoUrl
  THEN /\ t.injector.queue = Append(injector.queue, Script(State, nextTrack))
       /\ t.controller.isPrepared
  ELSE /\ t.injector = injector
       /\ t.controller = controller

C18Tasks ==
  /\ \A nextTrack \in NextTracks : \A t \in PrepareTransitionTasks(nextTrack) :
       ~t.overflow => PreparesOnce(t, nextTrack)
  /\ \A i, j \in Scripts(injector.queue) :
       injector.queue[i].n = injector.queue[j].n => i = j

\* isPrepared is lowered only by the completion of an executeTransition.
C18Step ==
  (controller.isPrepared /\ ~controller'.isPrepared)
    => controller'.transitionsCount = controller.transitionsCount + 1

\* C18: between two completed executeTransition calls, prepareTransition
\* calls enqueue one script however many there are, and the FIFO never holds
\* two scripts written for the same transition.
C18PreparedOnce == []C18Tasks /\ [][C18Step]_vars

\* A transition has completed, the script of the next one is pending and
\* marked prepared: a further prepareTransition has a script to duplicate.
C18Witness ==
  /\ controller.enabled
  /\ controller.isPrepared
  /\ controller.transitionsCount > 0
  /\ \E i \in Scripts(injector.queue) : injector.queue[i].n = controller.transitionsCount
  /\ \E t \in PrepareTransitionTasks("u1") : t.injector.queue = injector.queue

\* setVolume called while no narration is under way.
SetVolumeIdle(value) == ~injector.isSpeaking /\ SetVolume(value)

\* Narration with no volume change other than the ducking during a speech.
NextDucking ==
  \/ Play
  \/ \E k \in Decks : DeckReady(k)
  \/ \E i \in 1..MaxPlayCalls : PlayResolved(i)
  \/ \E value \in Volumes : SetVolumeIdle(value)
  \/ \E nextTrack \in NextTracks : PrepareTransition(nextTrack)
  \/ ExecuteTransition
  \/ SpeakIntro
  \/ UtteranceDone
  \/ VoicesChanged
  \/ RampDone

SpecDucking == InitNarration /\ [][NextDucking]_vars

\* The requests that start an utterance.
BeginTasks == {t \in RequestTasks : ~injector.isSpeaking /\ t.injector.isSpeaking}

Ducked(level) == (level * duckLevel) \div Unit

\* C19: a narration begins by taking the music to originalVolume x duckLevel,
\* originalVolume being the engine volume at that moment; when the speech
\* ends or fails the level goes back to originalVolume; no ramp is scheduled
\* next to another one; and with no other volume change a duck/un-duck cycle
\* leaves engine.currentVolume where it was, with and without the graph.
C19DuckingRestores ==
  /\ Len(masterGain.ramps) <= 1
  /\ \A t \in BeginTasks :
       /\ t.injector.originalVolume = currentVolume
       /\ IF masterGain.node
          THEN t.masterGain.ramps = <<Ducked(currentVolume)>> /\ t.currentVolume = currentVolume
          ELSE t.currentVolume = Ducked(currentVolume)
  /\ \A t \in UtteranceDoneTasks :
       /\ Unducked(t, injector.originalVolume)
       /\ t.currentVolume = injector.originalVolume
  /\ \A t \in FailedSpeechTasks :
       ~t.overflow => Unducked(t, currentVolume) /\ t.currentVolume = currentVolume

\* One iteration of the outer loop of _smoothBPMTransitions, at position i.
SmoothStep(q, i) ==
  LET j == FirstCloser(q, q[i - 1], i + 1)
  IN  IF Abs(q[i - 1].bpm - q[i].bpm) > BpmJump /\ j # 0
      THEN [q EXCEPT ![i] = q[j], ![j] = q[i]]
      ELSE q

\* The queue as the scan finds it when it reaches the pair (i - 1, i).
RECURSIVE BeforeScan(_, _)
BeforeScan(q, i) == IF i <= 2 THEN q ELSE SmoothStep(BeforeScan(q, i - 1), i - 1)

\* The postcondition of the smoothing pass on the input q.
Smoothed(q) ==
  LET r == smoothBPMTransitions(q)
  IN  /\ Len(r) = Len(q)
      /\ \A i \in 2..Len(q) :
           \/ Abs(r[i - 1].bpm - r[i].bpm) <= BpmJump
           \/ \A j \in (i + 1)..Len(q) :
                Abs(r[i - 1].bpm - BeforeScan(q, i)[j].bpm) > BpmJump

\* Queues of up to MaxQueue tracks over a few BPM values: 5 apart, less and more.
BpmValues == {113, 118, 120, 126}

MaxQueue == 4

BpmQueues ==
  UNION {{[i \in 1..k |-> [url |-> "u1", bpm |-> b[i]]] : b \in [1..k -> BpmValues]} :
           k \in 0..MaxQueue}

\* The raw queues _buildEnergyQueue hands to the smoothing pass.
RawQueuesOf(lib, filter) ==
  LET pool == Pool(lib, filter)
  IN  RawQueues([build    |-> PhaseCandidates(pool, "build"),
                 peak     |-> PhaseCandidates(pool, "peak"),
                 release  |-> PhaseCandidates(pool, "release"),
                 cooldown |-> PhaseCandidates(pool, "cooldown")], DrawPhases)

LowTracks ==
  { << [url |-> "u1", energy |-> "low", bpm |-> 120] >>,
    << [url |-> "u1", energy |-> "low", bpm |-> 120],
       [url |-> "u5", energy |-> "low", bpm |-> 132] >>,
    << [url |-> "u5", energy |-> "low", bpm |-> 132],
       [url |-> "u1", energy |-> "low", bpm |-> 120] >> }

OtherTracks ==
  { << [url |-> "u2", energy |-> "mid", bpm |-> 0] >>,
    << [url |-> "u2", energy |-> "mid", bpm |-> 0],
       [url |-> "u3", energy |-> "high", bpm |-> 128] >>,
    << [url |-> "u3", energy |-> "high", bpm |-> 128],
       [url |-> "u2", energy |-> "mid", bpm |-> 0] >> }

ArcLibraries ==
  { << [key |-> "g1", stream |-> Stream, tracks |-> t1],
       [key |-> "g2", stream |-> NoUrl, tracks |-> t2] >> :
      t1 \in LowTracks, t2 \in OtherTracks }

ArcFilters == {"all", "g2", "gx"}

InitArc ==
  /\ webAudio = TRUE
  /\ \E lib \in ArcLibraries : Constructed(RegisterAll(NoGenres, lib))

\* The first call that builds a queue.
FirstSetFilter(f) == queue = <<>> /\ SetFilter(f)

NextArc ==
  \/ \E f \in ArcFilters : FirstSetFilter(f)
  \/ Play
  \/ \E k \in Decks : DeckReady(k)

SpecArc == InitArc /\ [][NextArc]_vars

\* The energy tag the library holds for a url.
EnergyOf(url) ==
  LET found == {i \in 1..Len(masterLibrary) : masterLibrary[i].url = url}
  IN  IF found = {} THEN "" ELSE masterLibrary[CHOOSE i \in found : TRUE].energy

\* The tracks of a pool that carry one of the given energy tags.
Tagged(pool, energies) == {i \in 1..Len(pool) : pool[i].energy \in energies}

\* C21: once a queue is built from a pool that holds a low-, mid- or
\* high-tagged track it has at least 8 entries, and when the pool holds a low
\* or mid track the first 3 entries of the queue are low- or mid-energy
\* tracks.
C21ArcStructure ==
  LET pool == Pool(masterLibrary, activeFilter)
  IN  queueIndex >= 0 =>
        /\ Tagged(pool, {"low", "mid", "high"}) # {} => Len(queue) >= ArcLength
        /\ Tagged(pool, {"low", "mid"}) # {} =>
             \A i \in 1..phaseConfig["build"].tracks :
               i <= Len(queue) => EnergyOf(queue[i]) \in {"low", "mid"}

\* min(1, max(0, v)), in thousandths.
Clamped(v) == IF v > Unit THEN Unit ELSE IF v < 0 THEN 0 ELSE v

\* C22: setVolume(v) leaves currentVolume = min(1, max(0, v)), so that
\* 0 <= currentVolume <= 1 in every state; the value goes to the master gain
\* when the graph exists and to the active deck's volume otherwise.
C22VolumeClamped ==
  /\ 0 <= currentVolume /\ currentVolume <= Unit
  /\ \A v \in Volumes :
       LET t == Microtasks(setVolume(State, v))
       IN  /\ t.currentVolume = Clamped(v)
           /\ IF masterGain.node
              THEN t.masterGain.value = Clamped(v) /\ t.players = players
              ELSE t.players[activePlayer].volume = Clamped(v) /\ t.masterGain = masterGain

\* The volume is 0 after setVolume(-0.2) and the graph exists; setVolume(1.4)
\* would now bring the master gain to 1.
C22Witness ==
  /\ currentVolume = 0
  /\ masterGain.node
  /\ masterGain.value = 0
  /\ \E v \in Volumes : v > Unit /\ setVolume(State, v).masterGain.value = Unit

\* No track is registered and no stream is configured.
NoSource == masterLibrary = <<>> /\ fallbackStream = NoUrl

\* C23: with no track and no stream, play() takes the branch that returns
\* false: it fires one error notification, of type noSource, starts no deck
\* and leaves isPlaying false; nothing is pending afterwards that could retry.
C23NoSource ==
  NoSource =>
    /\ ~isPlaying
    /\ timers = 0
    /\ \A i \in 1..MaxPlayCalls : playCalls[i] = IdleCall
    /\ \A i \in 1..MaxSessions : sessions[i].stage = "idle"
    /\ \A t \in PlayTasks :
         /\ ~t.overflow
         /\ Cardinality(Fired(t, "error")) = 1
         /\ \A e \in Fired(t, "error") : e.data.type = "noSource"
         /\ Fired(t, "stateChange") = {}
         /\ ~t.isPlaying
         /\ \A k \in Decks : /\ t.players[k].paused
                             /\ t.players[k].src = players[k].src
         /\ t.playCalls = playCalls
         /\ t.sessions = sessions
         /\ t.timers = timers

\* play() has been called on an engine without any source, and may be again.
C23Witness ==
  /\ NoSource
  /\ queueIndex = 0
  /\ audioContext
  /\ PlayTasks # {}

(***************************************************************************)
(* SpecRegister: registerGenre called any number of times, also with a key *)
(* that is registered already, before and after queues are built.          *)
(***************************************************************************)
ReRegistrations ==
  { [key |-> "g1", stream |-> Stream,
     tracks |-> << [url |-> "u1", energy |-> "low", bpm |-> 0] >>],
    [key |-> "g1", stream |-> Stream,
     tracks |-> << [url |-> "u2", energy |-> "high", bpm |-> 0] >>],
    [key |-> "g2", stream |-> NoUrl,
     tracks |-> << [url |-> "u3", energy |-> "mid", bpm |-> 0] >>] }

NextRegister ==
  \/ \E r \in ReRegistrations : RegisterGenre(r)
  \/ \E f \in Filters : SetFilter(f)
  \/ Play
  \/ \E k \in Decks : DeckReady(k)

SpecRegister == InitQueue /\ [][NextRegister]_vars

\* The tracks the library holds for a genre key.
LibraryOf(key) == SelectSeq(masterLibrary, LAMBDA t : t.genreKey = key)

\* C24: the library is the genre pools' track lists put together: for every
\* key it holds the tracks of that key's current pool, once.
C24LibraryIsPools ==
  /\ \A key \in GenreKeys : LibraryOf(key) = genrePools[key].tracks
  /\ \A i \in 1..Len(masterLibrary) : masterLibrary[i].genreKey \in GenreKeys

\* Time left on deck k when its position is p, ms; a stream has no end.
Remaining(k, p) == TrackDuration - p

InWindow(k, p) ==
  /\ players[k].src # Stream
  /\ Remaining(k, p) > 0
  /\ Remaining(k, p) <= DurationMs + 500

\* The task started a crossfade session.
StartedCrossfade(t) == \E i \in 1..MaxSessions : t.sessions[i] # sessions[i]

\* C25: a position update of the active deck in track mode starts a
\* crossfade to the next queue entry exactly when the remaining time is
\* positive and at most crossfadeDuration + 0.5 s and no session is in
\* flight; an update of the inactive deck, in stream mode or while
\* isCrossfading starts none and leaves the cursor where it is.
C25TriggerPolicy ==
  \A k \in Decks : \A p \in WindowPositions \cup Positions : \A t \in TimeUpdateTasks(k, p) :
    ~t.overflow =>
      /\ (k = activePlayer /\ isTrackMode) =>
           (StartedCrossfade(t) <=> (InWindow(k, p) /\ InFlight = {}))
      /\ StartedCrossfade(t) =>
           /\ t.queueIndex = (queueIndex + 1) % Len(queue)
           /\ \E r \in Requests(t) : r.data.url = queue[t.queueIndex + 1]
      /\ (k # activePlayer \/ ~isTrackMode \/ isCrossfading) =>
           /\ ~StartedCrossfade(t)
           /\ t.queueIndex = queueIndex
           /\ t.isCrossfading = isCrossfading

\* What preloading may not touch on a deck: source, position, play state.
Playback(s, k) ==
  [src |-> s.players[k].src, pos |-> s.players[k].pos, paused |-> s.players[k].paused]

\* In track mode with a next url, the inactive deck of t holds that url, and
\* the task did not start it.
Preloaded(t) ==
  (t.isTrackMode /\ getNextSource(t) # NoUrl) =>
    LET inactiveKey == Other(t.activePlayer)
    IN  /\ t.players[inactiveKey].src = QueueUrl(t, (t.queueIndex + 1) % Len(t.queue))
        /\ t.players[inactiveKey].paused \/ ~players[inactiveKey].paused

\* The tasks in which a ramp completes.
CompletedTasks(i, e) == {t \in FrameTasks(i, e) : t.sessions[i].stage = "idle"}

NotifyingTasks ==
  UNION {FrameTasks(i, e) : i \in 1..MaxSessions, e \in Elapsed}
    \cup {Microtasks(playResume(State, i)) :
            i \in {j \in 1..MaxPlayCalls : playCalls[j].stage = "resolving"}}
    \cup {Microtasks(pause(State))}
    \cup StopTasks

\* The url a notified track stands for.
TrackUrl(track) == IF track.kind = "track" THEN track.url ELSE fallbackStream

\* C27: every stateChange notification carries the value the isPlaying flag
\* has when it is delivered, and every trackChange notification carries the
\* track that is loaded on the deck active at that moment.
C27ObserversConsistent ==
  \A t \in NotifyingTasks :
    ~t.overflow =>
      /\ \A e \in Fired(t, "stateChange") : e.data.isPlaying = e.seen.isPlaying
      /\ \A e \in Fired(t, "trackChange") :
           TrackUrl(e.data.track) = e.seen.players[e.seen.activePlayer].src


(***************************************************************************)
(* C28.  The tasks in which the catch block of _crossfadeToSource runs for *)
(* invocation i: the task of the rejected await, and the task of the error *)
(* event of the incoming deck whose play() promise the invocation awaits.  *)
(***************************************************************************)
AbortTasks(i) ==
  CrossfadePlayRejectedTasks(i)
    \cup (IF sessions[i].stage = "pending" THEN DeckErrorTasks(sessions[i].in) ELSE {})

\* C28: every task that aborts a crossfade whose incoming play() was rejected
\* fires the error notification.
C28AbortSurfacesError ==
  \A i \in 1..MaxSessions :
    \A t \in AbortTasks(i) : ~t.overflow => Fired(t, "error") # {}


(***************************************************************************)
(* SpecRamp: the ramp of a crossfade, frame by frame, with and without the *)
(* Web Audio graph, at any listener volume.  Frames arrive at the quarter  *)
(* points of the ramp, and one arrives after its end.                      *)
(***************************************************************************)
RampElapsed == {(n * DurationMs) \div 4 : n \in 0..5}

InitRamp ==
  /\ webAudio \in BOOLEAN
  /\ Constructed(RegisterAll(NoGenres, Startup))

NextRamp ==
  \/ Play /\ Capped'
  \/ CallNext /\ Capped'
  \/ \E value \in Volumes : SetVolume(value) /\ Capped'
  \/ \E k \in Decks : DeckReady(k) /\ Capped'
  \/ \E i \in 1..MaxPlayCalls : PlayResolved(i) /\ Capped'
  \/ \E i \in 1..MaxSessions : CrossfadePlayResolved(i) /\ Capped'
  \/ \E i \in 1..MaxSessions, e \in RampElapsed : Frame(i, e) /\ Capped'

SpecRamp == InitRamp /\ [][NextRamp]_vars

\* theta = clamp(elapsed / duration, 0, 1), in thousandths
Theta(elapsed) ==
  IF elapsed < 0 THEN 0 ELSE Min((elapsed * 1000) \div DurationMs, 1000)

\* What a frame leaves as the level of deck k: the gain of its node, or the
\* volume of its element when the decks have no node.
Level(t, i, k) ==
  IF players[sessions[i].out].connected /\ players[sessions[i].in].connected
  THEN t.players[k].gain ELSE t.players[k].volume

\* Rounding allowed on a sum of squares of thousandths.
Tolerance == 10 * Unit

Near(a, b) == a - b <= Tolerance /\ b - a <= Tolerance

\* The frames of invocation i leave the levels cos x d and sin x d of full.
RampLaw(i, e, t, full) ==
  LET theta == Theta(e)
      d     == GrooveDip(theta)
      out   == Level(t, i, sessions[i].out)
      in    == Level(t, i, sessions[i].in)
  IN  /\ out = (((Cos1000(theta) * d) \div 1000) * full) \div Unit
      /\ in = (((Sin1000(theta) * d) \div 1000) * full) \div Unit
      /\ theta = 0 => out = full /\ in = 0
      /\ theta = 1000 => out = 0 /\ in = full
      /\ Near(out * out + in * in, ((d * full) \div Unit) * ((d * full) \div Unit))

IsNarrationStep(e) ==
  e.kind = "call" /\ e.name \in {"duckMusic", "speak", "unduckMusic"}

NarrationSteps(t) ==
  LET steps == SelectSeq(t.log, IsNarrationStep)
  IN  [n \in 1..Len(steps) |-> steps[n].name]

\* The isSpeaking flag as each of those steps finds it.
SpeakingAt(t) ==
  LET steps == SelectSeq(t.log, IsNarrationStep)
  IN  [n \in 1..Len(steps) |-> steps[n].data.speaking]

\* Every task of the narration: the calls of a host, toggle, and the end or
\* error event of the utterance.
AllNarrationTasks == NarrationTasks \cup ToggleTasks \cup UtteranceDoneTasks

\* C30: between tasks the music is ducked exactly while isSpeaking is true.
\* A task that finds isSpeaking false either leaves the narration alone, or
\* ducks once, sets isSpeaking and then hands one utterance to the
\* synthesizer, or ducks and un-ducks once when the synthesis fails on the
\* spot; a task that finds isSpeaking true never ducks or speaks, and un-ducks
\* at most once, clearing isSpeaking.
C30NarrationCycle ==
  \A t \in AllNarrationTasks :
    ~t.overflow =>
      IF injector.isSpeaking
      THEN \/ NarrationSteps(t) = <<>> /\ t.injector.isSpeaking
           \/ NarrationSteps(t) = <<"unduckMusic">> /\ ~t.injector.isSpeaking
      ELSE \/ NarrationSteps(t) = <<>> /\ ~t.injector.isSpeaking
           \/ /\ NarrationSteps(t) = <<"duckMusic", "speak">>
              /\ SpeakingAt(t) = <<TRUE, TRUE>>
              /\ t.injector.isSpeaking
           \/ /\ NarrationSteps(t) = <<"duckMusic", "unduckMusic">>
              /\ ~t.injector.isSpeaking

\* A second narration is being spoken, after a first one went through its
\* whole cycle, and a text is pending behind it.
C30Witness ==
  /\ injector.isSpeaking
  /\ voiceSynth.utterance.state = "speaking"
  /\ controller.transitionsCount >= 1
  /\ Len(injector.queue) > 0


\* No invocation of _crossfadeToSource is under way.
NoSession == \A i \in 1..MaxSessions : sessions[i].stage = "idle"

\* C31: in track mode, while playing with no crossfade under way, the active
\* deck holds queue[queueIndex].url and currentTrack describes that entry.
C31CursorMatchesDeck ==
  (isTrackMode /\ isPlaying /\ ~isCrossfading /\ NoSession) =>
    /\ players[activePlayer].src = QueueUrl(State, queueIndex)
    /\ currentTrack.kind = "track"
    /\ currentTrack.index = queueIndex
    /\ currentTrack.url = QueueUrl(State, queueIndex)


\* The cursor and the energy-phase counter are where the task found them.
SameCursor(t) ==
  /\ t.queueIndex = queueIndex
  /\ t.energyPhase = energyPhase
  /\ t.tracksInPhase = tracksInPhase

\* The media events of the active deck near and at the end of its track.
EndOfTrackTasks ==
  EndedTasks(activePlayer) \cup TimeUpdateTasks(activePlayer, NearEnd)
    \cup TimeUpdateTasks(activePlayer, TrackDuration - 1)

\* C32: while the crossfade of an end-of-track transition is under way (the
\* engine is playing, the active deck is inside the crossfade window and an
\* invocation is in flight), neither the ended event of the outgoing deck nor a further
\* position update moves queueIndex or the energy-phase counter.
C32SingleAdvance ==
  (isPlaying /\ InFlight # {} /\ InWindow(activePlayer, players[activePlayer].pos)) =>
    \A t \in EndOfTrackTasks : ~t.overflow => SameCursor(t)


\* No play() promise of the engine's own play() is waiting to be settled.
NoPlayCall == \A i \in 1..MaxPlayCalls : playCalls[i].stage = "idle"

\* C33: with no crossfade and no play() under way, the active deck is playing
\* exactly when isPlaying is true, and the inactive deck is not playing.
C33FlagMatchesDecks ==
  (NoSession /\ ~isCrossfading /\ NoPlayCall) =>
    /\ isPlaying <=> ~players[activePlayer].paused
    /\ players[Other(activePlayer)].paused


\* C34: with the processing graph present and no crossfade under way, the
\* gain of the bass shelf is its base value.
C34BassRestored ==
  (audioContext /\ NoSession /\ ~isCrossfading) => bassBoost = BassBase


\* The utterances a task handed to the synthesizer.
Spoken(t) == {e \in Entries(t) : e.kind = "call" /\ e.name = "speak"}

\* C35: the FIFO never holds more than one pending text; isPrepared is true
\* only while the FIFO holds the prepared script; and what executeTransition
\* speaks is the script prepared for the transition being made.
C35ScriptIsCurrent ==
  /\ Len(injector.queue) <= 1
  /\ controller.isPrepared =>
       /\ Len(injector.queue) = 1
       /\ injector.queue[1].kind = "transition"
  /\ \A t \in ExecuteTransitionTasks :
       \A e \in Spoken(t) :
         /\ e.data.text.kind = "transition"
         /\ e.data.text.n = controller.transitionsCount


\* The intro texts pending in a FIFO.
Intros(fifo) == {i \in 1..Len(fifo) : fifo[i].kind = "intro"}

\* C36: the FIFO never holds two intro texts, and none once hasSpokenIntro is
\* true; a speakIntro call made while a narration is being spoken pushes no
\* intro and does not raise hasSpokenIntro.
C36IntroOnce ==
  /\ Cardinality(Intros(injector.queue)) <= 1
  /\ controller.hasSpokenIntro => Intros(injector.queue) = {}
  /\ injector.isSpeaking =>
       \A t \in SpeakIntroTasks :
         ~t.overflow =>
           /\ t.injector.queue = injector.queue
           /\ t.controller.hasSpokenIntro = controller.hasSpokenIntro


\* The narration under way ends right after the listener set the volume to v.
EndsAfterSetVolume(v) == Microtasks(utteranceDone(Microtasks(setVolume(State, v))))

\* C37: when setVolume(v) is called while a narration is being spoken, the
\* end of the narration leaves currentVolume at the clamped v and takes the
\* music back to that level.
C37VolumeSurvives ==
  (injector.isSpeaking /\ voiceSynth.utterance.state # "none") =>
    \A v \in Volumes :
      ~EndsAfterSetVolume(v).overflow =>
        /\ EndsAfterSetVolume(v).currentVolume = Clamped(v)
        /\ Unducked(EndsAfterSetVolume(v), Clamped(v))


(***************************************************************************)
(* SpecTerminate: sources that may fail, the transport controls, and what   *)
(* the browser owes a crossfade: the awaited play() promise of the         *)
(* incoming deck is settled and delivered, and a requested animation frame *)
(* runs, so that a ramp comes to its end.                                  *)
(***************************************************************************)
\* Stated on what the step does to the record of the invocation.
PlayPromiseSettles(i) ==
  /\ sessions[i].stage = "pending"
  /\ sessions' = [sessions EXCEPT ![i].stage = "resolving"]

RampStarts(i) ==
  /\ sessions[i].stage = "resolving"
  /\ sessions' = [sessions EXCEPT ![i].stage = "ramp",
                                  ![i].bass = IF audioContext THEN bassBoost ELSE BassBase]

AbortRuns(i) ==
  /\ sessions[i].stage = "rejecting"
  /\ sessions' = [sessions EXCEPT ![i] = IdleSession]

FairCrossfade ==
  /\ \A i \in 1..MaxSessions : WF_sessions(PlayPromiseSettles(i))
  /\ \A i \in 1..MaxSessions : WF_sessions(RampStarts(i))
  /\ \A i \in 1..MaxSessions : WF_sessions(AbortRuns(i))
  /\ \A i \in 1..MaxSessions : WF_sessions(RampEnds(i))

NextTerminate ==
  \/ SetFilter("all") /\ Capped'
  \/ Play /\ Capped'
  \/ Pause /\ Capped'
  \/ Stop /\ Capped'
  \/ CallNext /\ Capped'
  \/ \E k \in Decks : DeckReady(k) /\ Capped'
  \/ \E k \in Decks : DeckError(k) /\ Capped'
  \/ \E k \in Decks : Ended(k) /\ Capped'
  \/ \E i \in 1..MaxPlayCalls : PlayResolved(i) /\ Capped'
  \/ \E i \in 1..MaxPlayCalls : PlayRejected(i) /\ Capped'
  \/ \E i \in 1..MaxSessions : CrossfadePlayResolved(i) /\ Capped'
  \/ \E i \in 1..MaxSessions : CrossfadePlayRejected(i) /\ Capped'
  \/ \E i \in 1..MaxSessions, e \in FullRamp : Frame(i, e) /\ Capped'
  \/ RetryTimer /\ Capped'

SpecTerminate == Init /\ [][NextTerminate]_vars /\ FairCrossfade

\* C38: every crossfade that starts ends: isCrossfading becomes false again,
\* and every invocation of _crossfadeToSource that awaits play() or ramps is
\* over at some later time.
C38CrossfadeTerminates ==
  /\ isCrossfading ~> ~isCrossfading
  /\ \A i \in 1..MaxSessions : (sessions[i].stage # "idle") ~> (sessions[i].stage = "idle")

\* A ramp is under way after pause(): the engine is not playing.
C38Witness ==
  /\ isCrossfading
  /\ ~isPlaying
  /\ \E i \in 1..MaxSessions : sessions[i].stage = "ramp"


(***************************************************************************)
(* SpecSpeech: the narration with no volume change by the listener during  *)
(* a speech, and a synthesizer that reports the end or the error of every  *)
(* utterance it accepted, one cancelled by toggle() included.              *)
(***************************************************************************)
NextSpeech ==
  \/ NextDucking
  \/ Toggle

\* Stated on what the step does to the synthesizer: the utterance is over.
UtteranceEnds ==
  /\ voiceSynth.utterance.state # "none"
  /\ voiceSynth' = [voiceSynth EXCEPT !.utterance = NoUtterance]

SpecSpeech == InitNarration /\ [][NextSpeech]_vars /\ WF_voiceSynth(UtteranceEnds)

\* The level the music is at, or on its way to: the master gain (its last
\* scheduled ramp) times the volume of the active deck's element, or that
\* volume alone without the graph.
MusicLevel(t) ==
  IF t.masterGain.node
  THEN ((IF t.masterGain.ramps # <<>> THEN t.masterGain.ramps[Len(t.masterGain.ramps)]
         ELSE t.masterGain.value) * t.players[t.activePlayer].volume) \div Unit
  ELSE t.players[t.activePlayer].volume

\* C39: every narration that starts finishes (isSpeaking becomes false
\* again), and the task that finishes it takes the music back to the level
\* it had when the narration ducked it.
C39NarrationTerminates ==
  /\ injector.isSpeaking ~> ~injector.isSpeaking
  /\ [](\A t \in UtteranceDoneTasks :
          ~t.overflow => ~t.injector.isSpeaking /\ MusicLevel(t) = injector.originalVolume)


\* How many times x occurs in the queue q.
Count(q, x) == Cardinality({i \in 1..Len(q) : q[i] = x})

\* No adjacent pair of q is more than 5 BPM apart.
Smooth(q) == \A i \in 2..Len(q) : Abs(q[i - 1].bpm - q[i].bpm) <= BpmJump

\* The smoothing pass on q only reorders.
OnlyReorders(q) ==
  LET r == smoothBPMTransitions(q)
  IN  /\ Len(r) = Len(q)
      /\ \A i \in 1..Len(q) : Count(r, q[i]) = Count(q, q[i])
      /\ Len(q) > 0 => r[1] = q[1]
      /\ Smooth(q) => r = q

\* C40: the smoothing pass returns a queue of the same length with the same
\* entries as many times each, leaves the first entry in place, and returns
\* unchanged a queue whose adjacent BPM differences are all at most 5: for
\* every queue over BpmValues, and for every raw queue of the registered
\* library.
C40SmoothingReorders ==
  /\ \A q \in BpmQueues : OnlyReorders(q)
  /\ \A q \in RawQueuesOf(masterLibrary, activeFilter) : OnlyReorders(q)

\* The queue in use came out of a pass that moved a track of the raw queue
\* and kept its first entry and its length.
C40Witness ==
  /\ queue # <<>>
  /\ \E q \in RawQueuesOf(masterLibrary, activeFilter) :
       /\ ~Smooth(q)
       /\ smoothBPMTransitions(q) # q
       /\ queue = Urls(smoothBPMTransitions(q))
       /\ Len(queue) = Len(q)
       /\ queue[1] = q[1].url

====
